---- MODULE Spec2Model ----
(***************************************************************************)
(* A model of the AI orchestration pipeline of promptathon-api:            *)
(*   generateAnswers   (src/src/functions/generateAnswers/generateAnswers.ts) *)
(*   generateJudgements (src/src/functions/generateJudgements.ts)          *)
(* and of the endpoints of the lobby that prepare a game for it:           *)
(*   createNewGame (src/src/functions/createNewGame.ts, src/unnamed/part_001) *)
(*   playerReg     (src/unnamed/part_002)                                  *)
(*   submitPrompt  (src/src/functions/submitPrompt.ts)                     *)
(* Each handler is an async function run by a single-threaded event loop:  *)
(* handlers and the tasks of a fan-out interleave only at an await.  One   *)
(* action of the model is the code that runs when one awaited call         *)
(* answers, up to the next await.                                          *)
(***************************************************************************)
EXTENDS Integers, Sequences, FiniteSets, TLC

VARIABLES
    game,       \* the game document of the "games" container
    players,    \* the "players" container: player id -> document or NoDoc
    ga,         \* the generateAnswers invocation in flight
    gj,         \* the generateJudgements invocation in flight
    provider,   \* what the model services may answer in this run: the run
                \* statuses, the error messages, whether a delete succeeds,
                \* the messages the judge writes
    lobby       \* the createNewGame, playerReg and submitPrompt invocations
                \* in flight, the "judges" container, the messages published
                \* to the game's group, and the documents of the "players"
                \* container that carry no player id

vars == <<game, players, ga, gj, provider, lobby>>

(***************************************************************************)
(* Bounds of the model.                                                    *)
(***************************************************************************)
MaxPlayers == 2
MaxQuestions == 2
MaxScore == 2
MaxRuns == 2
MaxRateLimits == 2
MaxPromptLen == 3
MaxPool == 4
MaxJoining == 1

(***************************************************************************)
(* Constants of the program.                                               *)
(***************************************************************************)
maxAttempts == 30
defaultWaitTime == 60
questionsPerGame == 3

\* An optional value (undefined, null, a missing document or field) is the
\* empty sequence; a present one is the sequence of it.
None == <<>>
Some(x) == <<x>>
NoDoc == None
NoField == None
NoJudgement == None
NoFault == <<>>
NoMessage == "undefined"

Min(a, b) == IF a < b THEN a ELSE b

RECURSIVE SumSeq(_)
SumSeq(s) == IF s = <<>> THEN 0 ELSE Head(s) + SumSeq(Tail(s))

Range(s) == {s[i] : i \in DOMAIN s}

\* The whitespace characters of the model: \s
Whitespace == {" ", "\n"}
isWhitespace(c) == c \in Whitespace

\* .replace(/^\s+|\s+$/g, ""): the leading run of whitespace ...
RECURSIVE trimStart(_)
trimStart(input) ==
    IF input # <<>> /\ isWhitespace(Head(input))
    THEN trimStart(Tail(input))
    ELSE input

\* ... and the trailing one
RECURSIVE trimEnd(_)
trimEnd(input) ==
    IF input # <<>> /\ isWhitespace(input[Len(input)])
    THEN trimEnd(SubSeq(input, 1, Len(input) - 1))
    ELSE input

(***************************************************************************)
(* The conversation service (openAIClient.beta.threads).                   *)
(* An error message is the sequence of the strings it is concatenated      *)
(* from; String.includes and String.match look into every part.            *)
(***************************************************************************)
RunStatuses ==
    {"queued", "in_progress", "completed", "failed", "cancelled", "expired",
     "requires_action"}

PlainMessage == "The server had an error"
RateLimitMessage == "Rate limit reached"
RateLimitHintMessage == "Rate limit reached. Try again in 20 seconds"
ProviderMessages == {PlainMessage, RateLimitMessage, RateLimitHintMessage}

\* error.message?.includes("Rate limit")
includesRateLimit(message) ==
    \E k \in DOMAIN message :
        message[k] \in {RateLimitMessage, RateLimitHintMessage}

\* error.message.match(/Try again in (\d+) seconds/) ? parseInt(...) : 60
waitTime(message) ==
    IF \E k \in DOMAIN message : message[k] = RateLimitHintMessage
    THEN 20
    ELSE defaultWaitTime

\* What openai.beta.threads.runs.retrieve may answer: a run with a status
\* (a failed run may carry last_error.message), or a thrown error.
RetrieveReplies ==
    {[kind |-> "run", status |-> s, message |-> NoMessage] :
        s \in provider.statuses}
    \cup {[kind |-> "run", status |-> "failed", message |-> m] :
            m \in IF "failed" \in provider.statuses
                  THEN provider.messages ELSE {}}
    \cup {[kind |-> "error", status |-> "none", message |-> m] :
            m \in provider.messages}

NoReply == [kind |-> "none", status |-> "none", message |-> NoMessage]

(***************************************************************************)
(* The text of the judge's last message, as parseFormattedResponse sees    *)
(* it: which of the five fields a pattern of the parser matches, and the   *)
(* digits matched.                                                         *)
(***************************************************************************)
Missing == None

JudgeText(context, technical, clarity, final, justification) ==
    [context |-> context, technical |-> technical, clarity |-> clarity,
     final |-> final, justification |-> justification]

\* A variant that fills a field without a match with 0 or the empty text.
parseFormattedResponse_Defaults(response) ==
    LET number(field) == IF field = Missing THEN 0 ELSE field[1]
    IN  [ok |-> TRUE,
         contextScore |-> number(response.context),
         technicalScore |-> number(response.technical),
         clarityScore |-> number(response.clarity),
         totalScore |-> number(response.final),
         justification |-> IF response.justification = Missing THEN <<>>
                           ELSE response.justification[1]]

\* parseFormattedResponse: the first missing field, in the order of the
\* throw statements, is the fault; otherwise the five parsed fields.
parseFormattedResponse(response) ==
    IF response.context = Missing
    THEN [ok |-> FALSE, error |-> <<"Could not parse Context Score">>]
    ELSE IF response.technical = Missing
    THEN [ok |-> FALSE, error |-> <<"Could not parse Technical Score">>]
    ELSE IF response.clarity = Missing
    THEN [ok |-> FALSE, error |-> <<"Could not parse Clarity Score">>]
    ELSE IF response.final = Missing
    THEN [ok |-> FALSE, error |-> <<"Could not parse Final Score">>]
    ELSE IF response.justification = Missing
    THEN [ok |-> FALSE, error |-> <<"Could not parse Justification">>]
    ELSE [ok |-> TRUE,
          contextScore |-> response.context[1],
          technicalScore |-> response.technical[1],
          clarityScore |-> response.clarity[1],
          totalScore |-> response.final[1],
          justification |-> response.justification[1]]

(***************************************************************************)
(* The text of a response is the sequence of its tokens: a label in one of *)
(* its written forms, a numeral, a "/denominator" suffix, a word, a word   *)
(* ending in a colon, a space, a line break, a code fence, an Evaluation   *)
(* header.  A label token is matched whole.                                *)
(***************************************************************************)
ScoreFields ==
    <<"Context Score", "Technical Score", "Clarity Score", "Final Score">>
JustificationField == "Justification"

\* The three patterns of a field, in the order the parser tries them:
\* **Label:** value, **Label**: value, Label: value.
LabelForms == <<"**:", "**", ":">>

LabelText(field, form) ==
    CASE form = "**:" -> "**" \o field \o ":**"
      [] form = "**" -> "**" \o field \o "**:"
      [] form = ":" -> field \o ":"
      [] OTHER -> field \o " -"

\* The decimal numerals of the model; a number below zero is written with
\* a sign, which is no digit.
Numerals ==
    (0 :> "0") @@ (1 :> "1") @@ (2 :> "2") @@ (3 :> "3") @@ (4 :> "4")
    @@ (5 :> "5") @@ (180 :> "180") @@ (250 :> "250") @@ (300 :> "300")
Numeral(n) == IF n < 0 THEN "-1" ELSE Numerals[n]

\* (\d+) matches the token; parseInt gives its value
isDigits(token) == \E n \in DOMAIN Numerals : Numerals[n] = token
parseInt(token) == CHOOSE n \in DOMAIN Numerals : Numerals[n] = token

\* the three backquotes of a fenced code block
Fence == "[fence]"
Denominators == <<"/300", "/400", "/300", "/1000">>
Word == "good"
ColonWord == "Note:"
HashHeader == "### Evaluation"
BoldHeader == "**Evaluation**"

\* a token that begins with the emphasis mark
startsBold(token) ==
    \/ token = BoldHeader
    \/ \E form \in {"**:", "**"} :
           \/ token = LabelText(JustificationField, form)
           \/ \E n \in DOMAIN ScoreFields :
                  token = LabelText(ScoreFields[n], form)

\* \S+: at the start of a line: a first word that holds a colon
startsLabel(token) ==
    \/ token = ColonWord
    \/ \E form \in Range(LabelForms) :
           token = LabelText(JustificationField, form)

\* the index of the first token at or after i that is not whitespace
RECURSIVE skipSpace(_, _)
skipSpace(text, i) ==
    IF i <= Len(text) /\ isWhitespace(text[i])
    THEN skipSpace(text, i + 1)
    ELSE i

\* response.match(/<fence>([\s\S]*?)<fence>/): the content of the first fenced
\* block, trimmed, replaces the response
stripCodeBlock(text) ==
    LET fences == {i \in DOMAIN text : text[i] = Fence}
    IN  IF Cardinality(fences) < 2 THEN text
        ELSE LET open == CHOOSE i \in fences : \A n \in fences : i <= n
                 close == CHOOSE i \in fences \ {open} :
                              \A n \in fences \ {open} : i <= n
             IN  trimEnd(trimStart(SubSeq(text, open + 1, close - 1)))

\* response.replace(/^###\s*Evaluation:?\s*/i, "") and
\* response.replace(/^(?:\*\*)?Evaluation(?:\*\*)?:?\s*\n?/i, "")
stripHeader(text) ==
    LET first == IF text # <<>> /\ Head(text) = HashHeader
                 THEN trimStart(Tail(text)) ELSE text
    IN  IF first # <<>> /\ Head(first) = BoldHeader
        THEN trimStart(Tail(first)) ELSE first

\* response.match(/<label>\s*(\d+)/i) for one form of a field: the digits
\* of the leftmost match, None when there is no match
scoreMatch(text, field, form) ==
    LET hits == {i \in DOMAIN text :
                    /\ text[i] = LabelText(field, form)
                    /\ skipSpace(text, i + 1) <= Len(text)
                    /\ isDigits(text[skipSpace(text, i + 1)])}
    IN  IF hits = {} THEN None
        ELSE LET i == CHOOSE i \in hits : \A n \in hits : i <= n
             IN  Some(parseInt(text[skipSpace(text, i + 1)]))

\* A variant that knows the plain pattern only.
firstScore_PlainOnly(text, field) == scoreMatch(text, field, LabelForms[3])

\* the three patterns of a score field, the first that matches
firstScore(text, field) ==
    IF scoreMatch(text, field, LabelForms[1]) # None
    THEN scoreMatch(text, field, LabelForms[1])
    ELSE IF scoreMatch(text, field, LabelForms[2]) # None
    THEN scoreMatch(text, field, LabelForms[2])
    ELSE scoreMatch(text, field, LabelForms[3])

\* the lookahead of the justification patterns at token e:
\* (?=\n\*\*|\n$|$) for the emphasized forms, (?=\n\S+:|\n$|$) for the
\* plain one
terminates(text, e, form) ==
    \/ e = Len(text) + 1
    \/ /\ text[e] = "\n"
       /\ \/ e = Len(text)
          \/ IF form = ":" THEN startsLabel(text[e + 1])
             ELSE startsBold(text[e + 1])

\* ([\s\S]+?) from token j: the shortest capture of at least one token
\* that the lookahead follows
RECURSIVE captureEnd(_, _, _)
captureEnd(text, e, form) ==
    IF terminates(text, e, form) THEN e ELSE captureEnd(text, e + 1, form)

\* response.match(/<label>\s*([\s\S]+?)(?=...)/i) for one form of the
\* justification: \s* takes all the whitespace after the label, and gives
\* the last one back when nothing else is left to capture
justificationMatch(text, form) ==
    LET hits == {i \in DOMAIN text :
                    /\ text[i] = LabelText(JustificationField, form)
                    /\ i < Len(text)}
    IN  IF hits = {} THEN None
        ELSE LET i == CHOOSE i \in hits : \A n \in hits : i <= n
                 j == IF skipSpace(text, i + 1) <= Len(text)
                      THEN skipSpace(text, i + 1) ELSE Len(text)
             IN  Some(SubSeq(text, j, captureEnd(text, j + 1, form) - 1))

\* the three patterns of the justification, the first that matches, and
\* justificationMatch[1].trim()
firstJustification(text) ==
    LET found == IF justificationMatch(text, LabelForms[1]) # None
                 THEN justificationMatch(text, LabelForms[1])
                 ELSE IF justificationMatch(text, LabelForms[2]) # None
                 THEN justificationMatch(text, LabelForms[2])
                 ELSE justificationMatch(text, LabelForms[3])
    IN  IF found = None THEN None
        ELSE Some(trimEnd(trimStart(found[1])))

\* Lines 303-350: the matches of the five fields in the stripped response.
matchFields(text) ==
    LET response == stripHeader(stripCodeBlock(text))
    IN  JudgeText(firstScore(response, ScoreFields[1]),
                  firstScore(response, ScoreFields[2]),
                  firstScore(response, ScoreFields[3]),
                  firstScore(response, ScoreFields[4]),
                  firstJustification(response))

(***************************************************************************)
(* The message of the judge: what it wrote (a value for each field, or    *)
(* Missing) and how it laid it out (the form of each label, denominator    *)
(* suffixes, a code fence around the text, an Evaluation header, and what  *)
(* stands in the place of a field it did not write: nothing, the label     *)
(* without its colon, or the label with a word for a number).              *)
(***************************************************************************)
Layout(forms, denominators, fence, header, missing) ==
    [forms |-> forms, denominators |-> denominators, fence |-> fence,
     header |-> header, missing |-> missing]

UniformLayout(form) ==
    Layout([n \in 1..5 |-> form], FALSE, FALSE, "", "absent")

PlainLayout == UniformLayout(":")

\* the line of the n-th score field
ScoreLine(value, n, layout) ==
    IF value = Missing
    THEN CASE layout.missing = "bare" ->
                  <<LabelText(ScoreFields[n], "-"), " ", Numeral(0), "\n">>
           [] layout.missing = "word" ->
                  <<LabelText(ScoreFields[n], layout.forms[n]), " ", Word,
                    "\n">>
           [] OTHER -> <<>>
    ELSE <<LabelText(ScoreFields[n], layout.forms[n]), " ",
           Numeral(value[1])>>
         \o (IF layout.denominators THEN <<Denominators[n]>> ELSE <<>>)
         \o <<"\n">>

JustificationLine(value, layout) ==
    IF value = Missing
    THEN IF layout.missing = "absent" THEN <<>>
         ELSE <<LabelText(JustificationField, "-"), " ", Word>>
    ELSE <<LabelText(JustificationField, layout.forms[5]), " ">> \o value[1]

\* the text of the message
Render(written, layout) ==
    (IF layout.fence THEN <<Fence, "\n">> ELSE <<>>)
    \o (IF layout.header # "" THEN <<layout.header, "\n">> ELSE <<>>)
    \o ScoreLine(written.context, 1, layout)
    \o ScoreLine(written.technical, 2, layout)
    \o ScoreLine(written.clarity, 3, layout)
    \o ScoreLine(written.final, 4, layout)
    \o JustificationLine(written.justification, layout)
    \o (IF layout.fence THEN <<"\n", Fence>> ELSE <<>>)

JudgeMessage(written, layout) == [written |-> written, layout |-> layout]

\* The contents of the messages of a judge that answers in the plain form:
\* the five fields, or a message that ends before the last of them.
JudgeTexts ==
    {JudgeText(<<1>>, <<1>>, <<1>>, <<f>>, <<<<Word>>>>) : f \in 1..MaxScore}
    \cup {JudgeText(<<1>>, <<1>>, <<1>>, Missing, <<<<Word>>>>),
          JudgeText(<<1>>, <<1>>, <<1>>, <<1>>, Missing)}

PlainMessages == {JudgeMessage(w, PlainLayout) : w \in JudgeTexts}

\* The numbers a judge may write for a score, and the texts it may write
\* for the justification: a word, words with spaces around them, several
\* lines, a later line that begins with a word and a colon.
WrittenScores == {-1} \cup 0..MaxScore
WrittenJustifications ==
    {<<Word>>, <<Word, " ", Word>>, <<" ", Word, " ">>,
     <<Word, "\n", Word>>, <<Word, "\n", ColonWord, " ", Word>>}

\* the labels emphasized, each score followed by its denominator
EmphasizedLayouts ==
    {[UniformLayout(form) EXCEPT !.denominators = TRUE] :
        form \in {"**:", "**"}}

\* every field written, in the plain form or in an emphasized one
WellFormedMessages ==
    {JudgeMessage(JudgeText(<<c>>, <<t>>, <<l>>, <<f>>, <<j>>), layout) :
        c \in WrittenScores, t \in WrittenScores, l \in WrittenScores,
        f \in WrittenScores, j \in WrittenJustifications,
        layout \in {PlainLayout} \cup EmphasizedLayouts}

\* any of the fields not written
Field(present, value) == IF present THEN Some(value) ELSE Missing
IncompleteMessages ==
    {JudgeMessage(JudgeText(Field(w[1], 1), Field(w[2], 1), Field(w[3], 1),
                            Field(w[4], 1), Field(w[5], <<Word>>)),
                  [UniformLayout(form) EXCEPT !.missing = missing]) :
        w \in [1..5 -> BOOLEAN], form \in Range(LabelForms),
        missing \in {"absent", "bare", "word"}}

\* the message inside a fenced code block, or under an Evaluation header
WrappedMessages ==
    {JudgeMessage(JudgeText(<<1>>, <<1>>, <<1>>, <<1>>, <<<<Word>>>>),
                  [UniformLayout(form) EXCEPT !.fence = fence,
                                              !.header = header]) :
        form \in Range(LabelForms), fence \in BOOLEAN,
        header \in {"", HashHeader, BoldHeader}}

JudgeMessages ==
    WellFormedMessages \cup IncompleteMessages \cup WrappedMessages

\* What openAIClient.beta.threads.messages.list may answer: a fault, no
\* message, a message without text content, or one of the messages the
\* judge may write.
ListReplies ==
    {[kind |-> "error", text |-> None, message |-> None],
     [kind |-> "no_messages", text |-> None, message |-> None],
     [kind |-> "no_text", text |-> None, message |-> None]}
    \cup {[kind |-> "text", text |-> Some(Render(m.written, m.layout)),
           message |-> Some(m)] : m \in provider.judge}

(***************************************************************************)
(* The Judge Conversation Runner: the task generateJudgements maps over    *)
(* every stored answer.  A task is a record:                               *)
(*   pc        the await the task is suspended at                          *)
(*   thread    whether thread?.id is defined                               *)
(*   attempts  the attempt counter of waitForRunCompletion                 *)
(*   judgement, fault   the value the task is about to return / rethrow    *)
(*   polls, dels, rateLimits, lastPoll   history: the retrieve and del     *)
(*             calls made, the rate-limit waits, the last retrieve reply   *)
(*   cleanupError   history: whether the del call threw                    *)
(*   listed    history: the kind of the messages.list reply and the        *)
(*             message of the judge it carried                             *)
(***************************************************************************)
NewTask ==
    [pc |-> "create", thread |-> FALSE, attempts |-> 0, wait |-> 0,
     judgement |-> NoJudgement, fault |-> NoFault,
     polls |-> 0, dels |-> 0, rateLimits |-> 0, lastPoll |-> NoReply,
     cleanupError |-> FALSE, listed |-> [kind |-> "none", message |-> None]]

PollCap == maxAttempts + MaxRateLimits + 1

\* A variant that rethrows without the finally block's delete.
catchAndCleanup_NoFinally(t, error) ==
    [t EXCEPT !.pc = "done", !.fault = error]

\* catch (error) { await context.error(...); throw error; } finally { ... }:
\* the fault is kept to be rethrown, and the thread is deleted first when
\* thread?.id is defined.
catchAndCleanup(t, error) ==
    IF t.thread
    THEN [t EXCEPT !.pc = "del", !.fault = error]
    ELSE [t EXCEPT !.pc = "done", !.fault = error]

\* thread = await openAIClient.beta.threads.create()
threadsCreate(t, ok) ==
    IF ok
    THEN [t EXCEPT !.pc = "submit", !.thread = TRUE]
    ELSE catchAndCleanup(t, <<"threads.create failed">>)

\* await openAIClient.beta.threads.messages.create(thread.id, ...)
messagesCreate(t, ok) ==
    IF ok
    THEN [t EXCEPT !.pc = "run"]
    ELSE catchAndCleanup(t, <<"messages.create failed">>)

\* A variant that lists the messages without waiting for the run.
runsCreate_NoWait(t, ok) ==
    IF ok
    THEN [t EXCEPT !.pc = "list"]
    ELSE catchAndCleanup(t, <<"runs.create failed">>)

\* const run = await openAIClient.beta.threads.runs.create(thread.id, ...)
\* and the entry of waitForRunCompletion: attempts = 0 < maxAttempts.
runsCreate(t, ok) ==
    IF ok
    THEN [t EXCEPT !.pc = "poll", !.attempts = 0]
    ELSE catchAndCleanup(t, <<"runs.create failed">>)

\* The error the switch of waitForRunCompletion throws for a run status,
\* <<>> when it throws none.
statusError(reply) ==
    CASE reply.status = "failed" ->
            IF reply.message # NoMessage
            THEN <<"Run failed", ": ", reply.message>>
            ELSE <<"Run failed">>
      [] reply.status \in {"cancelled", "expired"} ->
            <<"Run ", reply.status>>
      [] reply.status = "requires_action" ->
            <<"Run requires action - not supported">>
      [] OTHER -> <<>>

\* A variant in which a rate-limit wait consumes an attempt.
catchInLoop_CountsAttempt(t, error) ==
    IF includesRateLimit(error)
    THEN [t EXCEPT !.pc = "backoff", !.wait = waitTime(error),
                   !.attempts = Min(t.attempts + 1, maxAttempts - 1),
                   !.rateLimits = Min(t.rateLimits + 1, MaxRateLimits)]
    ELSE IF t.thread
    THEN [t EXCEPT !.pc = "del", !.fault = error]
    ELSE [t EXCEPT !.pc = "done", !.fault = error]

\* The catch of waitForRunCompletion: it encloses the switch, so it sees the
\* errors the switch throws as well as those of runs.retrieve.
catchInLoop(t, error) ==
    IF includesRateLimit(error)
    THEN [t EXCEPT !.pc = "backoff", !.wait = waitTime(error),
                   !.rateLimits = Min(t.rateLimits + 1, MaxRateLimits)]
    ELSE catchAndCleanup(t, error)

\* A variant whose loop test is attempts <= maxAttempts.
waitForRunCompletion_OffByOne(t, reply) ==
    LET polled == [t EXCEPT !.polls = Min(t.polls + 1, PollCap),
                            !.lastPoll = reply]
    IN  IF reply.kind = "error"
        THEN catchInLoop(polled, <<reply.message>>)
        ELSE IF reply.status = "completed"
        THEN [polled EXCEPT !.pc = "list"]
        ELSE IF statusError(reply) # <<>>
        THEN catchInLoop(polled, statusError(reply))
        ELSE IF t.attempts + 1 <= maxAttempts
             THEN [polled EXCEPT !.attempts = t.attempts + 1]
             ELSE catchAndCleanup(
                      [polled EXCEPT !.attempts = t.attempts + 1],
                      <<"Run timed out after 30 seconds">>)

\* One iteration of the loop of waitForRunCompletion, from the reply of
\* runs.retrieve to the next await.
waitForRunCompletion(t, reply) ==
    LET polled == [t EXCEPT !.polls = Min(t.polls + 1, PollCap),
                            !.lastPoll = reply]
    IN  IF reply.kind = "error"
        THEN catchInLoop(polled, <<reply.message>>)
        ELSE IF reply.status = "completed"
        THEN [polled EXCEPT !.pc = "list"]
        ELSE IF statusError(reply) # <<>>
        THEN catchInLoop(polled, statusError(reply))
        ELSE \* queued, in_progress: sleep 1 s, attempts++
             IF t.attempts + 1 < maxAttempts
             THEN [polled EXCEPT !.attempts = t.attempts + 1]
             ELSE catchAndCleanup(
                      [polled EXCEPT !.attempts = t.attempts + 1],
                      <<"Run timed out after 30 seconds">>)

\* The rate-limit wait is over: continue, and the loop test holds again.
retryAfterWait(t) == [t EXCEPT !.pc = "poll", !.wait = 0]

\* messages.list answered: the checks on the messages, the parse, and the
\* Judgement built from it.
messagesList(task, reply, response, time) ==
    LET t == [task EXCEPT !.listed = [kind |-> reply.kind,
                                      message |-> reply.message]]
    IN
    CASE reply.kind = "error" ->
            catchAndCleanup(t, <<"messages.list failed">>)
      [] reply.kind = "no_messages" ->
            catchAndCleanup(t, <<"No messages found in thread">>)
      [] reply.kind = "no_text" ->
            catchAndCleanup(t,
                <<"No text content found in assistant response">>)
      [] OTHER ->
            LET judgementContent ==
                    parseFormattedResponse(matchFields(reply.text[1]))
            IN  IF judgementContent.ok
                THEN [t EXCEPT
                        !.pc = "del",
                        !.judgement = Some(
                            [id |-> <<"judge", response.id>>,
                             timestamp |-> time,
                             aiAnswerId |-> response.id,
                             playerId |-> response.playerId,
                             questionId |-> response.questionId,
                             contextScore |-> judgementContent.contextScore,
                             technicalScore |->
                                 judgementContent.technicalScore,
                             clarityScore |-> judgementContent.clarityScore,
                             totalScore |-> judgementContent.totalScore,
                             justification |->
                                 judgementContent.justification])]
                ELSE catchAndCleanup(t, judgementContent.error)

\* A variant in which a fault of the delete call is rethrown.
threadsDel_Rethrows(t, ok) ==
    IF ok
    THEN [t EXCEPT !.pc = "done", !.dels = t.dels + 1]
    ELSE [t EXCEPT !.pc = "done", !.dels = t.dels + 1,
                   !.cleanupError = TRUE,
                   !.fault = <<"threads.del failed">>]

\* A variant without the try/catch inside finally: a fault of the delete
\* call replaces the outcome the task was about to return or rethrow.
threadsDel_MasksOutcome(t, ok) ==
    IF ok
    THEN [t EXCEPT !.pc = "done", !.dels = t.dels + 1]
    ELSE [t EXCEPT !.pc = "done", !.dels = t.dels + 1,
                   !.cleanupError = TRUE,
                   !.judgement = NoJudgement,
                   !.fault = <<"Error cleaning up thread">>]

\* finally: await openAIClient.beta.threads.del(thread.id), its own fault
\* caught and logged; then the task returns or rethrows.
threadsDel(t, ok) ==
    [t EXCEPT !.pc = "done", !.dels = t.dels + 1, !.cleanupError = ~ok]

(***************************************************************************)
(* The join of the fan-out: await Promise.all(aiResponses.map(...)).       *)
(* Promise.all rejects with the first rejection, and the handler's catch   *)
(* answers 500 at once; it fulfils when every task has fulfilled, with the *)
(* values in the order of the input.                                       *)
(***************************************************************************)
\* A variant that answers only when every task has ended, with 500 when
\* one of them faulted.
promiseAll_WaitsForAll(j) ==
    IF j.pc # "fanout" THEN j
    ELSE IF \E i \in DOMAIN j.tasks : j.tasks[i].pc # "done" THEN j
    ELSE IF \E i \in DOMAIN j.tasks : j.tasks[i].fault # NoFault
    THEN [j EXCEPT !.pc = "done", !.status = 500]
    ELSE [j EXCEPT !.pc = "patchGame",
                   !.judgements =
                       [i \in DOMAIN j.tasks |-> j.tasks[i].judgement[1]]]

\* A variant that waits for every task and keeps the fulfilled values
\* (Promise.allSettled and a filter).
RECURSIVE fulfilled(_)
fulfilled(tasks) ==
    IF tasks = <<>> THEN <<>>
    ELSE (IF Head(tasks).fault = NoFault THEN Head(tasks).judgement
          ELSE <<>>)
         \o fulfilled(Tail(tasks))

promiseAll_AllSettled(j) ==
    IF j.pc # "fanout" THEN j
    ELSE IF \A i \in DOMAIN j.tasks : j.tasks[i].pc = "done"
    THEN [j EXCEPT !.pc = "patchGame", !.judgements = fulfilled(j.tasks)]
    ELSE j

promiseAll(j) ==
    IF j.pc # "fanout" THEN j
    ELSE IF \E i \in DOMAIN j.tasks :
                j.tasks[i].pc = "done" /\ j.tasks[i].fault # NoFault
    THEN [j EXCEPT !.pc = "done", !.status = 500]
    ELSE IF \A i \in DOMAIN j.tasks : j.tasks[i].pc = "done"
    THEN [j EXCEPT !.pc = "patchGame",
                   !.judgements =
                       [i \in DOMAIN j.tasks |-> j.tasks[i].judgement[1]]]
    ELSE j

\* A variant in which the answer of the request cancels the tasks that are
\* still running.
Settle_Cancels(i, t) ==
    /\ gj.pc = "fanout"
    /\ gj' = promiseAll([gj EXCEPT !.tasks[i] = t])

\* A task resumes with the answer of its call, whether or not the request
\* has answered; late is the history of the tasks that took a step after
\* the request had answered.
Settle(i, t) ==
    gj' = promiseAll([gj EXCEPT !.tasks[i] = t,
                                !.late = IF gj.pc = "done" THEN @ \cup {i}
                                         ELSE @])

(***************************************************************************)
(* Documents and invocation records.                                       *)
(***************************************************************************)
PlayerIds == 1..MaxPlayers
Theme == "Coffee"
\* request.query.get("gameId"): the id of the game, of no game, or absent
GameIds == {"game", "unknown", "absent"}

\* An Answer; id is `${gameId}-${player.id}-${judgeQ.id}` of the one game
\* of the model, timestamp the number of the request that produced it.
AIAnswer(p, q, time) ==
    [id |-> <<p, q>>, playerId |-> p, questionId |-> q, timestamp |-> time]

PlayerDoc == [prompt |-> <<"w", " ", "w">>, totalScore |-> NoField,
              themeName |-> NoField]

\* The game createNewGame stores; a missing aiResponses or judgements field
\* reads as [] (game.aiResponses || []).
GameDoc(nQuestions) ==
    [status |-> "waiting", theme |-> Theme,
     questions |-> [q \in 1..nQuestions |-> q],
     players |-> <<>>, playerIds |-> <<>>,
     aiResponses |-> <<>>, judgements |-> <<>>]

\* The game after playerReg of the first n players.
Joined(g, n) ==
    [g EXCEPT !.players = [p \in 1..n |-> [id |-> p]],
              !.playerIds = [p \in 1..n |-> p]]

\* The players container with the first n players registered to the game.
Registered(n) == [p \in PlayerIds |-> IF p <= n THEN Some(PlayerDoc) ELSE NoDoc]

\* The lobby at rest: no invocation in flight, nothing published.
IdleCreate == [pc |-> "idle", status |-> 0, variant |-> "none", doc |-> None]
IdleReg == [pc |-> "idle", status |-> 0, seen |-> None,
            wrotePlayer |-> FALSE, wroteGame |-> FALSE]
IdleSubmit == [pc |-> "idle", status |-> 0, prompt |-> <<>>, player |-> None,
               wrotePlayer |-> FALSE, published |-> FALSE]
IdleLobby ==
    [create |-> IdleCreate,
     regs |-> [u \in PlayerIds |-> IdleReg],
     submits |-> [u \in PlayerIds |-> IdleSubmit],
     judges |-> <<>>, published |-> {}, strays |-> {}]

IdleAnswers ==
    [pc |-> "idle", gameId |-> "none", status |-> 0, runs |-> 0,
     questions |-> <<>>,
     players |-> <<>>, prompts |-> <<>>, calls |-> <<>>, responses |-> <<>>,
     successfulResponses |-> <<>>, stored |-> FALSE]

IdleJudgements ==
    [pc |-> "idle", gameId |-> "none", status |-> 0, runs |-> 0,
     aiResponses |-> <<>>,
     theme |-> Theme, tasks |-> <<>>, judgements |-> <<>>, updates |-> <<>>,
     wroteGame |-> FALSE, wrotePlayers |-> {}, late |-> {}]

\* const aiResponses = game.aiResponses || []; the fan-out starts one task
\* per stored answer.
FanOut(j, aiResponses) ==
    [j EXCEPT !.pc = "fanout", !.aiResponses = aiResponses,
              !.tasks = [i \in DOMAIN aiResponses |-> NewTask]]

TaskIds == DOMAIN gj.tasks

(***************************************************************************)
(* The steps of a runner task.  A task runs on whatever the request has    *)
(* answered meanwhile: there is no cancellation.                           *)
(***************************************************************************)
ThreadCreated(i) ==
    /\ gj.tasks[i].pc = "create"
    /\ \E ok \in BOOLEAN : Settle(i, threadsCreate(gj.tasks[i], ok))
    /\ UNCHANGED <<game, players, ga, provider, lobby>>

MessageSubmitted(i) ==
    /\ gj.tasks[i].pc = "submit"
    /\ \E ok \in BOOLEAN : Settle(i, messagesCreate(gj.tasks[i], ok))
    /\ UNCHANGED <<game, players, ga, provider, lobby>>

RunStarted(i) ==
    /\ gj.tasks[i].pc = "run"
    /\ \E ok \in BOOLEAN : Settle(i, runsCreate(gj.tasks[i], ok))
    /\ UNCHANGED <<game, players, ga, provider, lobby>>

RunPolled(i) ==
    /\ gj.tasks[i].pc = "poll"
    /\ \E reply \in RetrieveReplies :
           Settle(i, waitForRunCompletion(gj.tasks[i], reply))
    /\ UNCHANGED <<game, players, ga, provider, lobby>>

RateLimitWaited(i) ==
    /\ gj.tasks[i].pc = "backoff"
    /\ Settle(i, retryAfterWait(gj.tasks[i]))
    /\ UNCHANGED <<game, players, ga, provider, lobby>>

MessagesListed(i) ==
    /\ gj.tasks[i].pc = "list"
    /\ \E reply \in ListReplies :
           Settle(i, messagesList(gj.tasks[i], reply, gj.aiResponses[i],
                                  gj.runs))
    /\ UNCHANGED <<game, players, ga, provider, lobby>>

ThreadDeleted(i) ==
    /\ gj.tasks[i].pc = "del"
    /\ \E ok \in provider.deletes : Settle(i, threadsDel(gj.tasks[i], ok))
    /\ UNCHANGED <<game, players, ga, provider, lobby>>

(***************************************************************************)
(* The document store.  A patch with op "add" on a member of the document  *)
(* sets the member, replacing a value it already has.                      *)
(***************************************************************************)
\* A variant whose patch also advances the status of the game.
patchAiResponses_Starts(g, value) ==
    [g EXCEPT !.aiResponses = value, !.status = "in-progress"]

\* gameContainer.item(gameId, gameId).patch([{op: "add",
\*     path: "/aiResponses", value}])
patchAiResponses(g, value) == [g EXCEPT !.aiResponses = value]

\* A variant that appends the value to the stored list.
patchJudgements_Append(g, value) == [g EXCEPT !.judgements = @ \o value]

\* gameContainer.item(gameId, gameId).patch([{op: "add",
\*     path: "/judgements", value}])
patchJudgements(g, value) == [g EXCEPT !.judgements = value]

\* A variant that adds the total to the one the record already holds.
patchPlayer_Accumulates(doc, total, theme) ==
    [doc EXCEPT !.totalScore =
                    IF @ = NoField THEN Some(total) ELSE Some(@[1] + total),
                !.themeName = Some(theme)]

\* A variant that replaces the document by one with the two fields only.
patchPlayer_Replaces(doc, total, theme) ==
    [prompt |-> <<>>, totalScore |-> Some(total), themeName |-> Some(theme)]

\* playerContainer.item(playerId, gameId).patch([{op: "add",
\*     path: "/totalScore", ...}, {op: "add", path: "/themeName", ...}])
patchPlayer(doc, total, theme) ==
    [doc EXCEPT !.totalScore = Some(total), !.themeName = Some(theme)]

\* SELECT * FROM c WHERE c.gameId = @gameId: the registered players, each
\* with its id and its prompt
RECURSIVE queryPlayers(_, _)
queryPlayers(store, p) ==
    IF p > MaxPlayers THEN <<>>
    ELSE (IF store[p] # NoDoc
          THEN <<[id |-> p, prompt |-> store[p][1].prompt]>>
          ELSE <<>>)
         \o queryPlayers(store, p + 1)

(***************************************************************************)
(* sanitizeInput and createPrompt.  A string is the sequence of its        *)
(* characters, a character one of its class: "w" a word character, "?" a   *)
(* punctuation mark of the allow-list, "#" a character outside the         *)
(* allow-list, and the whitespace characters " " and "\n".                 *)
(***************************************************************************)
Chars == {"w", "?", "#"} \cup Whitespace

\* the complement of [^\w\s.,?!;:()'"]
isAllowed(c) == c \in {"w", "?"} \/ isWhitespace(c)

\* the strings of at most n characters
RECURSIVE Strings(_)
Strings(n) ==
    IF n = 0 THEN {<<>>}
    ELSE Strings(n - 1)
         \cup {Append(str, c) : str \in Strings(n - 1), c \in Chars}

\* .replace(/[^\w\s.,?!;:()'"]/g, " ")
replaceSpecial(input) ==
    [i \in DOMAIN input |-> IF isAllowed(input[i]) THEN input[i] ELSE " "]

\* .replace(/\s+/g, " "): every run of whitespace becomes one space
RECURSIVE normalizeWhitespace(_)
normalizeWhitespace(input) ==
    IF input = <<>> THEN <<>>
    ELSE IF isWhitespace(Head(input))
    THEN <<" ">> \o normalizeWhitespace(trimStart(input))
    ELSE <<Head(input)>> \o normalizeWhitespace(Tail(input))

\* if (!input) return ""; then the three replacements, in the order of the
\* code: trim, replace, normalise.
sanitizeInput(input) ==
    IF input = <<>> THEN <<>>
    ELSE normalizeWhitespace(replaceSpecial(trimEnd(trimStart(input))))

\* The template of createPrompt, with its two slots.
createPrompt(assistantPrompt, question) ==
    [assistantPrompt |-> assistantPrompt, question |-> question]

\* judgeQ.content
questionContent(q) == <<"w", " ", "w", "?">>

(***************************************************************************)
(* generateAnswers.                                                        *)
(***************************************************************************)
\* What openAIClient.chat.completions.create may answer for one pair: a
\* completion, a response without choices, or a thrown error whose message
\* does or does not name the content filter.
CompletionReplies == {"answer", "no_choices", "error", "content_filter"}

\* The task of a pair, suspended at chat.completions.create with the
\* combined prompt it sent.
PendingCall(content) ==
    [reply |-> "pending", value |-> None, content |-> content]

\* The value the task of the pair (player, judgeQ) resolves with: an
\* AIAnswer (error undefined) or an AIAnswerError.
answerEntry(p, q, reply, time) ==
    [id |-> IF reply = "answer" THEN <<p, q>> ELSE <<>>,
     playerId |-> p, questionId |-> q,
     timestamp |-> IF reply = "answer" THEN time ELSE 0,
     error |-> CASE reply = "answer" -> None
                 [] reply = "no_choices" ->
                        Some("Empty response from AI service")
                 [] reply = "content_filter" ->
                        Some("Content filter triggered")
                 [] OTHER -> Some("Error generating response")]

\* A variant that keeps every entry of the result list.
RECURSIVE successful_All(_)
successful_All(responses) ==
    IF responses = <<>> THEN <<>>
    ELSE <<AIAnswer(Head(responses).playerId, Head(responses).questionId,
                    Head(responses).timestamp)>>
         \o successful_All(Tail(responses))

\* aiResponses.filter((response) => !("error" in response))
RECURSIVE successful(_)
successful(responses) ==
    IF responses = <<>> THEN <<>>
    ELSE (IF Head(responses).error = None
          THEN <<AIAnswer(Head(responses).playerId,
                          Head(responses).questionId,
                          Head(responses).timestamp)>>
          ELSE <<>>)
         \o successful(Tail(responses))

\* players.flatMap((player) => judgeQuestions.map(...)): task k is the pair
\* of player (k-1) div q and question (k-1) mod q.
\* A variant that pairs player and question by the same index.
pairPlayer_Zip(a, k) == a.players[((k - 1) % Len(a.players)) + 1]

pairPlayer(a, k) == a.players[((k - 1) \div Len(a.questions)) + 1]
pairPrompt(a, k) == a.prompts[((k - 1) \div Len(a.questions)) + 1]
pairQuestion(a, k) == a.questions[((k - 1) % Len(a.questions)) + 1]

\* Lines 57-93: the gameId check, the read of the game, the judge questions.
answersReadGame(a, gameId, ok, g) ==
    LET started == [IdleAnswers EXCEPT !.runs = a.runs + 1,
                                       !.gameId = gameId]
    IN  IF gameId = "absent"
        THEN [started EXCEPT !.pc = "done", !.status = 400]
        ELSE IF ~ok
        THEN [started EXCEPT !.pc = "done", !.status = 500]
        ELSE IF gameId = "unknown" \/ Len(g.questions) = 0
        THEN [started EXCEPT !.pc = "done", !.status = 404]
        ELSE [started EXCEPT !.pc = "queryPlayers",
                             !.questions = g.questions]

\* Lines 95-120: the query of the players and the start of the fan-out.
answersQueryPlayers(a, ok, resources) ==
    IF ~ok
    THEN [a EXCEPT !.pc = "done", !.status = 500]
    ELSE IF Len(resources) = 0
    THEN [a EXCEPT !.pc = "done", !.status = 404]
    ELSE LET started ==
                 [a EXCEPT !.pc = "fanout",
                           !.players =
                               [n \in DOMAIN resources |-> resources[n].id],
                           !.prompts =
                               [n \in DOMAIN resources |->
                                   resources[n].prompt]]
         IN  [started EXCEPT !.calls =
                 [k \in 1..(Len(resources) * Len(a.questions)) |->
                     PendingCall(createPrompt(
                         sanitizeInput(pairPrompt(started, k)),
                         sanitizeInput(
                             questionContent(pairQuestion(started, k)))))]]

\* await Promise.all(...) of generateAnswers, and lines 210-216: no task
\* rejects, so the join waits for all of them.
joinAnswers(a) ==
    IF \E k \in DOMAIN a.calls : a.calls[k].value = None THEN a
    ELSE LET aiResponses == [k \in DOMAIN a.calls |-> a.calls[k].value[1]]
         IN  IF Len(successful(aiResponses)) > 0
             THEN [a EXCEPT !.pc = "patch", !.responses = aiResponses,
                            !.successfulResponses = successful(aiResponses)]
             ELSE [a EXCEPT !.pc = "done", !.status = 200,
                            !.responses = aiResponses,
                            !.successfulResponses = <<>>]

\* A variant without the try/catch of the task: a thrown error rejects the
\* join and the handler's catch answers 500.
completionsCreate_NoCatch(a, k, reply) ==
    IF reply \in {"error", "content_filter"}
    THEN [a EXCEPT !.pc = "done", !.status = 500,
                   !.calls[k].reply = reply]
    ELSE joinAnswers(
            [a EXCEPT !.calls[k].reply = reply,
                      !.calls[k].value =
                          Some(answerEntry(pairPlayer(a, k),
                                           pairQuestion(a, k),
                                           reply, a.runs))])

\* Lines 121-205: the task of one pair, from the reply of the model call.
completionsCreate(a, k, reply) ==
    joinAnswers(
        [a EXCEPT !.calls[k].reply = reply,
                  !.calls[k].value =
                      Some(answerEntry(pairPlayer(a, k), pairQuestion(a, k),
                                       reply, a.runs))])

\* aiResponses.filter((response) => "error" in response)
RECURSIVE errorResponses(_)
errorResponses(responses) ==
    IF responses = <<>> THEN <<>>
    ELSE (IF Head(responses).error # None THEN <<Head(responses)>>
          ELSE <<>>)
         \o errorResponses(Tail(responses))

\* Lines 257-269: the response of a request that reached the fan-out.
answersResponse(a) ==
    [status |-> a.status,
     processedCount |-> Len(a.successfulResponses),
     errorCount |-> Len(errorResponses(a.responses)),
     totalPlayers |-> Len(a.players),
     totalQuestions |-> Len(a.questions),
     expectedTotal |-> Len(a.players) * Len(a.questions),
     responses |-> a.responses]

\* A variant without the try/catch around the patch: its fault reaches the
\* handler's catch, which answers 500.
answersPatched_Propagates(a, ok) ==
    IF ok
    THEN [a EXCEPT !.pc = "done", !.status = 200, !.stored = TRUE]
    ELSE [a EXCEPT !.pc = "done", !.status = 500, !.responses = <<>>,
                   !.successfulResponses = <<>>]

\* Lines 217-269: the patch answered or threw (caught and logged); the
\* response is the same.
answersPatched(a, ok) ==
    [a EXCEPT !.pc = "done", !.status = 200, !.stored = ok]

AnswersRequested ==
    /\ ga.pc \in {"idle", "done"}
    /\ ga.runs < MaxRuns
    /\ \E gameId \in GameIds, ok \in BOOLEAN :
           ga' = answersReadGame(ga, gameId, ok, game)
    /\ UNCHANGED <<game, players, gj, provider, lobby>>

PlayersQueried ==
    /\ ga.pc = "queryPlayers"
    /\ \E ok \in BOOLEAN :
           ga' = answersQueryPlayers(ga, ok, queryPlayers(players, 1))
    /\ UNCHANGED <<game, players, gj, provider, lobby>>

CompletionReturned(k) ==
    /\ ga.pc = "fanout"
    /\ ga.calls[k].value = None
    /\ \E reply \in CompletionReplies : ga' = completionsCreate(ga, k, reply)
    /\ UNCHANGED <<game, players, gj, provider, lobby>>

AnswersPatched ==
    /\ ga.pc = "patch"
    /\ \E ok \in BOOLEAN :
           /\ ga' = answersPatched(ga, ok)
           /\ game' = IF ok
                      THEN patchAiResponses(game, ga.successfulResponses)
                      ELSE game
    /\ UNCHANGED <<players, gj, provider, lobby>>

PairIds == DOMAIN ga.calls

(***************************************************************************)
(* generateJudgements.                                                     *)
(***************************************************************************)
\* A variant without the check of lines 91-96 on the stored answers.
judgementsReadGame_NoAnswersCheck(j, gameId, ok, g) ==
    LET started == [IdleJudgements EXCEPT !.runs = j.runs + 1,
                                          !.gameId = gameId]
    IN  IF gameId = "absent"
        THEN [started EXCEPT !.pc = "done", !.status = 400]
        ELSE IF ~ok
        THEN [started EXCEPT !.pc = "done", !.status = 500]
        ELSE IF gameId = "unknown"
        THEN [started EXCEPT !.pc = "done", !.status = 404]
        ELSE FanOut([started EXCEPT !.theme = g.theme], g.aiResponses)

\* Lines 59-98: the gameId check, the read of the game, its stored answers.
judgementsReadGame(j, gameId, ok, g) ==
    LET started == [IdleJudgements EXCEPT !.runs = j.runs + 1,
                                          !.gameId = gameId]
    IN  IF gameId = "absent"
        THEN [started EXCEPT !.pc = "done", !.status = 400]
        ELSE IF ~ok
        THEN [started EXCEPT !.pc = "done", !.status = 500]
        ELSE IF gameId = "unknown" \/ Len(g.aiResponses) = 0
        THEN [started EXCEPT !.pc = "done", !.status = 404]
        ELSE FanOut([started EXCEPT !.theme = g.theme], g.aiResponses)

\* Object.keys(playerScores): the players of the judgements, in the order
\* of their first judgement.
RECURSIVE playerKeys(_, _)
playerKeys(judgements, seen) ==
    IF judgements = <<>> THEN <<>>
    ELSE IF Head(judgements).playerId \in seen
    THEN playerKeys(Tail(judgements), seen)
    ELSE <<Head(judgements).playerId>>
         \o playerKeys(Tail(judgements),
                       seen \cup {Head(judgements).playerId})

\* A variant in which a later score of a player replaces the earlier ones.
RECURSIVE totalScores_Last(_, _)
totalScores_Last(judgements, playerId) ==
    IF judgements = <<>> THEN <<>>
    ELSE IF totalScores_Last(Tail(judgements), playerId) # <<>>
    THEN totalScores_Last(Tail(judgements), playerId)
    ELSE IF Head(judgements).playerId = playerId
    THEN <<Head(judgements).totalScore>>
    ELSE <<>>

\* playerScores[playerId].totalScores
RECURSIVE totalScores(_, _)
totalScores(judgements, playerId) ==
    IF judgements = <<>> THEN <<>>
    ELSE (IF Head(judgements).playerId = playerId
          THEN <<Head(judgements).totalScore>> ELSE <<>>)
         \o totalScores(Tail(judgements), playerId)

\* A variant that sums the judgements of every player.
combinedTotalScore_AllPlayers(judgements, playerId) ==
    SumSeq([k \in DOMAIN judgements |-> judgements[k].totalScore])

\* scores.totalScores.reduce((sum, score) => sum + score, 0)
combinedTotalScore(judgements, playerId) ==
    SumSeq(totalScores(judgements, playerId))

\* Lines 207-245: the scores of the run's judgements by player, and one
\* update task per player, each suspended at the read of its player.
playerUpdatePromises(judgements) ==
    LET keys == playerKeys(judgements, {})
    IN  [k \in DOMAIN keys |->
            [playerId |-> keys[k], pc |-> "read", outcome |-> "pending",
             combinedTotalScore |-> combinedTotalScore(judgements, keys[k])]]

\* await Promise.all(playerUpdatePromises) and the 200 response.
joinUpdates(j) ==
    IF \A k \in DOMAIN j.updates : j.updates[k].pc = "done"
    THEN [j EXCEPT !.pc = "done", !.status = 200]
    ELSE j

\* Lines 199-205 answered: on a fault the handler's catch answers 500,
\* otherwise the player updates start.
judgementsPatched(j, ok) ==
    IF ~ok
    THEN [j EXCEPT !.pc = "done", !.status = 500]
    ELSE joinUpdates([j EXCEPT !.pc = "updatePlayers", !.wroteGame = TRUE,
                               !.updates =
                                   playerUpdatePromises(j.judgements)])

\* A variant without the try/catch of the update task: a fault of the read
\* rejects the join and the handler's catch answers 500.
playerRead_Propagates(j, k, ok, doc) ==
    IF ~ok
    THEN [j EXCEPT !.pc = "done", !.status = 500,
                   !.updates[k].pc = "done",
                   !.updates[k].outcome = "readFault"]
    ELSE joinUpdates([j EXCEPT !.updates[k].pc =
                                  IF doc # NoDoc THEN "patch" ELSE "done",
                              !.updates[k].outcome =
                                  IF doc = NoDoc THEN "absent"
                                  ELSE "pending"])

\* Lines 243-247 and 261-269: the read of the player answered; a player
\* that is not in the store is logged, a fault is caught and logged.
playerRead(j, k, ok, doc) ==
    joinUpdates([j EXCEPT !.updates[k].pc =
                              IF ok /\ doc # NoDoc THEN "patch" ELSE "done",
                          !.updates[k].outcome =
                              IF ~ok THEN "readFault"
                              ELSE IF doc = NoDoc THEN "absent"
                              ELSE "pending"])

\* Lines 249-260 and 266-269: the patch of the player answered.
playerPatched(j, k, ok) ==
    joinUpdates([j EXCEPT !.updates[k].pc = "done",
                          !.updates[k].outcome =
                              IF ok THEN "written" ELSE "patchFault",
                          !.wrotePlayers =
                              IF ok THEN @ \cup {j.updates[k].playerId}
                              ELSE @])

JudgementsRequested ==
    /\ gj.pc \in {"idle", "done"}
    /\ gj.runs < MaxRuns
    /\ \A i \in DOMAIN gj.tasks : gj.tasks[i].pc = "done"
    /\ \E gameId \in GameIds, ok \in BOOLEAN :
           gj' = judgementsReadGame(gj, gameId, ok, game)
    /\ UNCHANGED <<game, players, ga, provider, lobby>>

JudgementsPatched ==
    /\ gj.pc = "patchGame"
    /\ \E ok \in BOOLEAN :
           /\ gj' = judgementsPatched(gj, ok)
           /\ game' = IF ok THEN patchJudgements(game, gj.judgements)
                      ELSE game
    /\ UNCHANGED <<players, ga, provider, lobby>>

PlayerRead(k) ==
    /\ gj.pc = "updatePlayers"
    /\ gj.updates[k].pc = "read"
    /\ \E ok \in BOOLEAN :
           gj' = playerRead(gj, k, ok, players[gj.updates[k].playerId])
    /\ UNCHANGED <<game, players, ga, provider, lobby>>

PlayerPatched(k) ==
    /\ gj.pc = "updatePlayers"
    /\ gj.updates[k].pc = "patch"
    /\ \E ok \in BOOLEAN :
           /\ gj' = playerPatched(gj, k, ok)
           /\ players' =
                 IF ok
                 THEN [players EXCEPT ![gj.updates[k].playerId] =
                          Some(patchPlayer(@[1],
                                           gj.updates[k].combinedTotalScore,
                                           gj.theme))]
                 ELSE players
    /\ UNCHANGED <<game, ga, provider, lobby>>

UpdateIds == DOMAIN gj.updates

(***************************************************************************)
(* createNewGame.  Math.random() is a fraction r / RandomDen; the two      *)
(* versions of the handler differ in the query of the judges and in the    *)
(* loop that draws the questions.                                          *)
(***************************************************************************)
RandomDen == MaxPool
Randoms == 0..(RandomDen - 1)
themes == <<"Coffee", "Microsoft", "Space">>

\* Math.floor(Math.random() * n)
floorRandom(r, n) == (r * n) \div RandomDen

\* the value of an array element that does not exist
UndefinedQuestion == 0

\* judgeQuestions.splice(questionIndex, 1): the element removed ([0] of an
\* empty result is undefined), and the array that is left
spliced(judgeQuestions, questionIndex) ==
    IF questionIndex < Len(judgeQuestions)
    THEN judgeQuestions[questionIndex + 1]
    ELSE UndefinedQuestion

splice(judgeQuestions, questionIndex) ==
    IF questionIndex < Len(judgeQuestions)
    THEN SubSeq(judgeQuestions, 1, questionIndex)
         \o SubSeq(judgeQuestions, questionIndex + 2, Len(judgeQuestions))
    ELSE judgeQuestions

\* createNewGame.ts:43-50:
\* for (let i = 0; i < 3 && judgeQuestions.length > 0; i++)
RECURSIVE selectedQuestions(_, _, _)
selectedQuestions(judgeQuestions, randoms, i) ==
    IF i < questionsPerGame /\ Len(judgeQuestions) > 0
    THEN LET questionIndex ==
                 floorRandom(randoms[i + 1], Len(judgeQuestions))
         IN  <<spliced(judgeQuestions, questionIndex)>>
             \o selectedQuestions(splice(judgeQuestions, questionIndex),
                                  randoms, i + 1)
    ELSE <<>>

\* part_001:47-53: for (let i = 0; i < 3; i++)
RECURSIVE selectedQuestionsThemed(_, _, _)
selectedQuestionsThemed(judgeQuestions, randoms, i) ==
    IF i < questionsPerGame
    THEN LET questionIndex ==
                 floorRandom(randoms[i + 1], Len(judgeQuestions))
         IN  <<spliced(judgeQuestions, questionIndex)>>
             \o selectedQuestionsThemed(splice(judgeQuestions, questionIndex),
                                        randoms, i + 1)
    ELSE <<>>

\* the place of a game document that was not created
NoGame == [GameDoc(0) EXCEPT !.status = "absent"]

\* SELECT * FROM c (createNewGame.ts), and
\* SELECT * FROM c WHERE c.theme = @theme (part_001)
RECURSIVE queryJudges(_, _)
queryJudges(judges, theme) ==
    IF judges = <<>> THEN <<>>
    ELSE (IF theme = "any" \/ Head(judges).theme = theme
          THEN <<Head(judges)>> ELSE <<>>)
         \o queryJudges(Tail(judges), theme)

\* the game object of both versions
newGame(judge, questions) ==
    [GameDoc(0) EXCEPT !.theme = judge.theme, !.questions = questions]

\* createNewGame.ts:23-60, from the answer of the query of the judges
judgesQueried(c, ok, resources, random, randoms) ==
    IF ~ok
    THEN [c EXCEPT !.pc = "done", !.status = 500]
    ELSE IF Len(resources) = 0
    THEN [c EXCEPT !.pc = "done", !.status = 404]
    ELSE LET judge == resources[floorRandom(random, Len(resources)) + 1]
         IN  [c EXCEPT !.pc = "upsert",
                       !.doc = Some(newGame(judge,
                                   selectedQuestions(judge.questions,
                                                     randoms, 0)))]

\* part_001:28-63, from the answer of the query of the judges of the theme
judgesQueriedThemed(c, ok, resources, randoms) ==
    IF ~ok
    THEN [c EXCEPT !.pc = "done", !.status = 500]
    ELSE IF Len(resources) = 0
    THEN [c EXCEPT !.pc = "done", !.status = 404]
    ELSE LET judge == resources[1]
         IN  [c EXCEPT !.pc = "upsert",
                       !.doc = Some(newGame(judge,
                                   selectedQuestionsThemed(judge.questions,
                                                           randoms, 0)))]

\* await gameContainer.items.upsert(game) answered
gameUpserted(c, ok) ==
    [c EXCEPT !.pc = "done", !.status = IF ok THEN 200 ELSE 500]

\* createNewGame of createNewGame.ts is invoked, up to its query
NewGameRequested ==
    /\ lobby.create.pc = "idle"
    /\ lobby' = [lobby EXCEPT !.create.pc = "query",
                              !.create.variant = "any"]
    /\ UNCHANGED <<game, players, ga, gj, provider>>

\* createNewGame of part_001 is invoked: it picks a theme, up to its query
ThemedGameRequested ==
    /\ lobby.create.pc = "idle"
    /\ \E random \in Randoms :
           lobby' = [lobby EXCEPT
                        !.create.pc = "query",
                        !.create.variant =
                            themes[floorRandom(random, Len(themes)) + 1]]
    /\ UNCHANGED <<game, players, ga, gj, provider>>

JudgesQueried ==
    /\ lobby.create.pc = "query"
    /\ \E ok \in BOOLEAN, random \in Randoms,
          randoms \in [1..questionsPerGame -> Randoms] :
           LET resources == queryJudges(lobby.judges, lobby.create.variant)
           IN  lobby' = [lobby EXCEPT !.create =
                           IF lobby.create.variant = "any"
                           THEN judgesQueried(@, ok, resources, random,
                                              randoms)
                           ELSE judgesQueriedThemed(@, ok, resources,
                                                    randoms)]
    /\ UNCHANGED <<game, players, ga, gj, provider>>

GameUpserted ==
    /\ lobby.create.pc = "upsert"
    /\ \E ok \in BOOLEAN :
           /\ lobby' = [lobby EXCEPT !.create = gameUpserted(@, ok)]
           /\ game' = IF ok THEN lobby.create.doc[1] ELSE game
    /\ UNCHANGED <<players, ga, gj, provider>>

(***************************************************************************)
(* playerReg (part_002).  The response of an item read or write is an      *)
(* object that wraps the resource: Some(resource), never None.             *)
(***************************************************************************)
\* const player = {id: userId, screenName, email, gameId}
NewPlayerDoc ==
    [prompt |-> <<>>, totalScore |-> NoField, themeName |-> NoField]

\* Lines 29-56: the method, the body, the required fields.
regRequested(r, method, valid) ==
    IF method # "POST"
    THEN [r EXCEPT !.pc = "done", !.status = 405]
    ELSE IF ~valid
    THEN [r EXCEPT !.pc = "done", !.status = 400]
    ELSE [r EXCEPT !.pc = "upsert"]

\* Lines 58-62: await playerContainer.items.upsert(player) answered; a
\* fault is thrown to the runtime, which answers 500.
playerUpserted(r, ok) ==
    IF ~ok
    THEN [r EXCEPT !.pc = "done", !.status = 500]
    ELSE LET createdPlayer == Some(NewPlayerDoc)
         IN  IF createdPlayer = None
             THEN [r EXCEPT !.pc = "done", !.status = 500,
                            !.wrotePlayer = TRUE]
             ELSE [r EXCEPT !.pc = "read", !.wrotePlayer = TRUE]

\* Lines 65-71: the read of the game answered.
regGameRead(r, ok, g) ==
    IF ~ok
    THEN [r EXCEPT !.pc = "done", !.status = 500]
    ELSE IF g.status = "absent"
    THEN [r EXCEPT !.pc = "done", !.status = 404]
    ELSE [r EXCEPT !.pc = "replace", !.seen = Some(g)]

\* {...game.resource, players: [...currentPlayers, player],
\*  playerIds: [...currentPlayerIds, player.id]}
updatedGame(resource, u) ==
    [resource EXCEPT !.players = Append(@, [id |-> u]),
                     !.playerIds = Append(@, u)]

\* Lines 73-77: the replace of the game answered.
gameReplaced(r, ok) ==
    IF ~ok
    THEN [r EXCEPT !.pc = "done", !.status = 500]
    ELSE [r EXCEPT !.pc = "publish", !.wroteGame = TRUE]

\* Lines 79-88: sendWebPubSubMessage answered or threw (caught).
regPublished(r) == [r EXCEPT !.pc = "done", !.status = 201]

RegRequested(u) ==
    /\ lobby.regs[u].pc = "idle"
    /\ \E method \in {"POST", "GET"}, valid \in BOOLEAN :
           lobby' = [lobby EXCEPT !.regs[u] = regRequested(@, method, valid)]
    /\ UNCHANGED <<game, players, ga, gj, provider>>

PlayerUpserted(u) ==
    /\ lobby.regs[u].pc = "upsert"
    /\ \E ok \in BOOLEAN :
           /\ lobby' = [lobby EXCEPT !.regs[u] = playerUpserted(@, ok)]
           /\ players' = IF ok
                         THEN [players EXCEPT ![u] = Some(NewPlayerDoc)]
                         ELSE players
    /\ UNCHANGED <<game, ga, gj, provider>>

RegGameRead(u) ==
    /\ lobby.regs[u].pc = "read"
    /\ \E ok \in BOOLEAN :
           lobby' = [lobby EXCEPT !.regs[u] = regGameRead(@, ok, game)]
    /\ UNCHANGED <<game, players, ga, gj, provider>>

GameReplaced(u) ==
    /\ lobby.regs[u].pc = "replace"
    /\ \E ok \in BOOLEAN :
           /\ lobby' = [lobby EXCEPT !.regs[u] = gameReplaced(@, ok)]
           /\ game' = IF ok THEN updatedGame(lobby.regs[u].seen[1], u)
                      ELSE game
    /\ UNCHANGED <<players, ga, gj, provider>>

RegPublished(u) ==
    /\ lobby.regs[u].pc = "publish"
    /\ \E ok \in BOOLEAN :
           lobby' = [lobby EXCEPT
                        !.regs[u] = regPublished(@),
                        !.published =
                            IF ok
                            THEN @ \cup {[message |-> "joined", player |-> u]}
                            ELSE @]
    /\ UNCHANGED <<game, players, ga, gj, provider>>

(***************************************************************************)
(* submitPrompt.                                                           *)
(***************************************************************************)
\* the prompts a player may submit
Prompts == {<<"w">>, <<"w", "?">>}

\* Lines 30-35: the read of the player answered; player is the response
\* of the read, player.resource the document or undefined.
submitPlayerRead(r, ok, resource) ==
    IF ~ok
    THEN [r EXCEPT !.pc = "done", !.status = 500]
    ELSE LET player == Some(resource)
         IN  IF player = None
             THEN [r EXCEPT !.pc = "done", !.status = 400]
             ELSE [r EXCEPT !.pc = "upsert", !.player = player]

\* Line 39: the upsert of {...player.resource, prompt} answered.
promptUpserted(r, ok) ==
    IF ~ok
    THEN [r EXCEPT !.pc = "done", !.status = 500]
    ELSE [r EXCEPT !.pc = "publish", !.wrotePlayer = TRUE]

\* Lines 40-42: sendWebPubSubMessage answered or threw (caught).
promptPublished(r, ok) ==
    [r EXCEPT !.pc = "done", !.status = 200, !.published = ok]

SubmitRequested(u) ==
    /\ lobby.submits[u].pc = "idle"
    /\ \E prompt \in Prompts :
           lobby' = [lobby EXCEPT !.submits[u].pc = "read",
                                  !.submits[u].prompt = prompt]
    /\ UNCHANGED <<game, players, ga, gj, provider>>

SubmitPlayerRead(u) ==
    /\ lobby.submits[u].pc = "read"
    /\ \E ok \in BOOLEAN :
           lobby' = [lobby EXCEPT
                        !.submits[u] = submitPlayerRead(@, ok, players[u])]
    /\ UNCHANGED <<game, players, ga, gj, provider>>

\* The document read is written back with the prompt; without a document
\* read, {prompt} is written under an id the client generates.
PromptUpserted(u) ==
    /\ lobby.submits[u].pc = "upsert"
    /\ \E ok \in BOOLEAN :
           LET r == lobby.submits[u]
               resource == r.player[1]
           IN  /\ lobby' = [lobby EXCEPT
                               !.submits[u] = promptUpserted(@, ok),
                               !.strays =
                                   IF ok /\ resource = NoDoc
                                   THEN @ \cup {[prompt |-> r.prompt]}
                                   ELSE @]
               /\ players' =
                     IF ok /\ resource # NoDoc
                     THEN [players EXCEPT ![u] =
                              Some([resource[1] EXCEPT !.prompt = r.prompt])]
                     ELSE players
    /\ UNCHANGED <<game, ga, gj, provider>>

PromptPublished(u) ==
    /\ lobby.submits[u].pc = "publish"
    /\ \E ok \in BOOLEAN :
           lobby' = [lobby EXCEPT
                        !.submits[u] = promptPublished(@, ok),
                        !.published =
                            IF ok
                            THEN @ \cup {[message |-> "prompt", player |-> u]}
                            ELSE @]
    /\ UNCHANGED <<game, players, ga, gj, provider>>

(***************************************************************************)
(* RunnerSpec: one Judge Conversation Runner task, from the start of the   *)
(* fan-out of a generateJudgements request over one stored answer, against *)
(* a conversation service that may answer every run status and every       *)
(* fault.                                                                  *)
(***************************************************************************)
RunnerInit ==
    /\ game = Joined([GameDoc(1) EXCEPT !.aiResponses = <<AIAnswer(1, 1, 1)>>],
                     1)
    /\ players = Registered(1)
    /\ ga = [IdleAnswers EXCEPT !.runs = MaxRuns]
    /\ gj = FanOut([IdleJudgements EXCEPT !.runs = MaxRuns,
                                           !.gameId = "game"],
                   <<AIAnswer(1, 1, 1)>>)
    /\ lobby = IdleLobby
    /\ provider = [statuses |-> RunStatuses, messages |-> ProviderMessages,
                   deletes |-> BOOLEAN,
                   judge |-> PlainMessages]

RunnerNext ==
    \/ \E i \in TaskIds : ThreadCreated(i)
    \/ \E i \in TaskIds : MessageSubmitted(i)
    \/ \E i \in TaskIds : RunStarted(i)
    \/ \E i \in TaskIds : RunPolled(i)
    \/ \E i \in TaskIds : RateLimitWaited(i)
    \/ \E i \in TaskIds : MessagesListed(i)
    \/ \E i \in TaskIds : ThreadDeleted(i)

RunnerSpec == RunnerInit /\ [][RunnerNext]_vars

\* The event loop resumes a task whenever the call it awaits has answered.
RunnerFairSpec == RunnerSpec /\ WF_vars(RunnerNext)

(***************************************************************************)
(* Spec: the pipeline on one game with one judge question and registered   *)
(* players.  Requests for generateAnswers and generateJudgements arrive at *)
(* any time, one of each in flight, up to MaxRuns of each; the             *)
(* conversation service answers a poll with a terminal status and deletes  *)
(* a conversation without fault.                                           *)
(***************************************************************************)
Init ==
    /\ \E nPlayers \in 1..MaxPlayers :
           /\ game = Joined(GameDoc(1), nPlayers)
           /\ players = Registered(nPlayers)
    /\ ga = IdleAnswers
    /\ gj = IdleJudgements
    /\ lobby = IdleLobby
    /\ provider = [statuses |-> {"completed", "failed"},
                   messages |-> {PlainMessage}, deletes |-> {TRUE},
                   judge |-> PlainMessages]

Next ==
    \/ AnswersRequested
    \/ PlayersQueried
    \/ \E k \in PairIds : CompletionReturned(k)
    \/ AnswersPatched
    \/ JudgementsRequested
    \/ \E i \in TaskIds : ThreadCreated(i)
    \/ \E i \in TaskIds : MessageSubmitted(i)
    \/ \E i \in TaskIds : RunStarted(i)
    \/ \E i \in TaskIds : RunPolled(i)
    \/ \E i \in TaskIds : MessagesListed(i)
    \/ \E i \in TaskIds : ThreadDeleted(i)
    \/ JudgementsPatched
    \/ \E k \in UpdateIds : PlayerRead(k)
    \/ \E k \in UpdateIds : PlayerPatched(k)

Spec == Init /\ [][Next]_vars

(***************************************************************************)
(* AnswersSpec: generateAnswers requests, up to MaxRuns of them, on a game *)
(* with up to MaxQuestions judge questions and up to MaxPlayers players.   *)
(***************************************************************************)
AnswersInit ==
    /\ \E nPlayers \in 1..MaxPlayers, nQuestions \in 1..MaxQuestions :
           /\ game = Joined(GameDoc(nQuestions), nPlayers)
           /\ players = Registered(nPlayers)
    /\ ga = IdleAnswers
    /\ gj = IdleJudgements
    /\ lobby = IdleLobby
    /\ provider = [statuses |-> {"completed", "failed"},
                   messages |-> {PlainMessage}, deletes |-> {TRUE},
                   judge |-> PlainMessages]

AnswersNext ==
    \/ AnswersRequested
    \/ PlayersQueried
    \/ \E k \in PairIds : CompletionReturned(k)
    \/ AnswersPatched

AnswersSpec == AnswersInit /\ [][AnswersNext]_vars

(***************************************************************************)
(* SanitizeSpec: generateAnswers requests on a game with one judge         *)
(* question and one player, whose prompt is any string of at most          *)
(* MaxPromptLen characters.                                                *)
(***************************************************************************)
SanitizeInit ==
    /\ game = Joined(GameDoc(1), 1)
    /\ \E input \in Strings(MaxPromptLen) :
           players = [p \in PlayerIds |->
                         IF p = 1
                         THEN Some([PlayerDoc EXCEPT !.prompt = input])
                         ELSE NoDoc]
    /\ ga = IdleAnswers
    /\ gj = IdleJudgements
    /\ lobby = IdleLobby
    /\ provider = [statuses |-> {"completed", "failed"},
                   messages |-> {PlainMessage}, deletes |-> {TRUE},
                   judge |-> PlainMessages]

SanitizeNext ==
    \/ AnswersRequested
    \/ PlayersQueried
    \/ \E k \in PairIds : CompletionReturned(k)
    \/ AnswersPatched

SanitizeSpec == SanitizeInit /\ [][SanitizeNext]_vars

(***************************************************************************)
(* ScoreSpec: the Score Aggregator of one generateJudgements run, from the *)
(* join of a fan-out in which every answer was judged.  The game has one   *)
(* judge question per entry of ScenarioTotals and an answer of every       *)
(* player to every question; each Judgement carries one of the scenario's  *)
(* totals.  The players container holds any of the players: the code       *)
(* provides for a player that is no longer in the store (lines 261-265).   *)
(***************************************************************************)
ScenarioTotals == <<250, 300, 180>>

\* The answers stored on the game, player by player.
ScenarioAnswers ==
    [k \in 1..(MaxPlayers * Len(ScenarioTotals)) |->
        AIAnswer(((k - 1) \div Len(ScenarioTotals)) + 1,
                 ((k - 1) % Len(ScenarioTotals)) + 1, 1)]

\* The runner task of an answer, ended with a Judgement of the given total.
JudgedTask(response, total) ==
    threadsDel(
        messagesList(
            [NewTask EXCEPT !.pc = "list", !.thread = TRUE, !.polls = 1,
                            !.lastPoll = [kind |-> "run",
                                          status |-> "completed",
                                          message |-> NoMessage]],
            [kind |-> "text",
             text |-> Some(Render(
                         JudgeText(<<1>>, <<1>>, <<1>>, <<total>>,
                                   <<<<Word>>>>),
                         PlainLayout)),
             message |-> Some(JudgeMessage(
                         JudgeText(<<1>>, <<1>>, <<1>>, <<total>>,
                                   <<<<Word>>>>),
                         PlainLayout))],
            response, MaxRuns),
        TRUE)

ScoreInit ==
    /\ game = Joined([GameDoc(Len(ScenarioTotals))
                         EXCEPT !.aiResponses = ScenarioAnswers],
                     MaxPlayers)
    /\ \E present \in SUBSET PlayerIds :
           players = [p \in PlayerIds |->
                         IF p \in present THEN Some(PlayerDoc) ELSE NoDoc]
    /\ ga = [IdleAnswers EXCEPT !.runs = MaxRuns]
    /\ \E totals \in [DOMAIN ScenarioAnswers -> Range(ScenarioTotals)] :
           gj = promiseAll(
                   [FanOut([IdleJudgements EXCEPT !.runs = MaxRuns,
                                           !.gameId = "game"],
                           ScenarioAnswers)
                       EXCEPT !.tasks =
                           [i \in DOMAIN ScenarioAnswers |->
                               JudgedTask(ScenarioAnswers[i], totals[i])]])
    /\ lobby = IdleLobby
    /\ provider = [statuses |-> {"completed"}, messages |-> {PlainMessage},
                   deletes |-> {TRUE},
                   judge |-> PlainMessages]

ScoreNext ==
    \/ JudgementsPatched
    \/ \E k \in UpdateIds : PlayerRead(k)
    \/ \E k \in UpdateIds : PlayerPatched(k)

ScoreSpec == ScoreInit /\ [][ScoreNext]_vars

(***************************************************************************)
(* FanOutSpec: the fan-out of one generateJudgements request over the      *)
(* stored answers of MaxPlayers players to one question, up to its join.   *)
(* A poll answers with a terminal status; every other call may fault.      *)
(***************************************************************************)
FanOutAnswers == [p \in PlayerIds |-> AIAnswer(p, 1, 1)]

FanOutInit ==
    /\ game = Joined([GameDoc(1) EXCEPT !.aiResponses = FanOutAnswers],
                     MaxPlayers)
    /\ players = Registered(MaxPlayers)
    /\ ga = [IdleAnswers EXCEPT !.runs = MaxRuns]
    /\ gj = FanOut([IdleJudgements EXCEPT !.runs = MaxRuns,
                                           !.gameId = "game"],
                   FanOutAnswers)
    /\ lobby = IdleLobby
    /\ provider = [statuses |-> {"completed", "failed"},
                   messages |-> {PlainMessage}, deletes |-> BOOLEAN,
                   judge |-> PlainMessages]

FanOutNext ==
    \/ \E i \in TaskIds : ThreadCreated(i)
    \/ \E i \in TaskIds : MessageSubmitted(i)
    \/ \E i \in TaskIds : RunStarted(i)
    \/ \E i \in TaskIds : RunPolled(i)
    \/ \E i \in TaskIds : MessagesListed(i)
    \/ \E i \in TaskIds : ThreadDeleted(i)

FanOutSpec == FanOutInit /\ [][FanOutNext]_vars

\* Every call of the conversation service answers, and the event loop
\* resumes the task that awaits it.
FanOutFairSpec ==
    FanOutSpec
    /\ \A i \in PlayerIds :
           WF_vars(\/ ThreadCreated(i) \/ MessageSubmitted(i)
                   \/ RunStarted(i) \/ RunPolled(i)
                   \/ MessagesListed(i) \/ ThreadDeleted(i))

(***************************************************************************)
(* EntrySpec: the entry points of the pipeline on a game that may have no  *)
(* judge question, no player, no stored answer: generateAnswers requests   *)
(* to their end, and generateJudgements requests up to the start of their  *)
(* fan-out.                                                                *)
(***************************************************************************)
EntryInit ==
    /\ \E nPlayers \in 0..MaxPlayers, nQuestions \in 0..MaxQuestions :
           /\ game = Joined(GameDoc(nQuestions), nPlayers)
           /\ players = Registered(nPlayers)
    /\ ga = IdleAnswers
    /\ gj = IdleJudgements
    /\ lobby = IdleLobby
    /\ provider = [statuses |-> {"completed", "failed"},
                   messages |-> {PlainMessage}, deletes |-> {TRUE},
                   judge |-> PlainMessages]

EntryNext ==
    \/ AnswersRequested
    \/ PlayersQueried
    \/ \E k \in PairIds : CompletionReturned(k)
    \/ AnswersPatched
    \/ JudgementsRequested

EntrySpec == EntryInit /\ [][EntryNext]_vars

(***************************************************************************)
(* LobbySpec: one createNewGame request, of either version of the handler, *)
(* against a judges container with no judge or with one judge of up to     *)
(* MaxPool questions, and one playerReg request of each user, at any time. *)
(***************************************************************************)
JudgePools ==
    {<<>>} \cup {<<[theme |-> Theme, questions |-> [q \in 1..n |-> q]]>> :
                    n \in 0..MaxPool}

LobbyInit ==
    /\ game = NoGame
    /\ players = Registered(0)
    /\ ga = [IdleAnswers EXCEPT !.runs = MaxRuns]
    /\ gj = [IdleJudgements EXCEPT !.runs = MaxRuns]
    /\ \E judges \in JudgePools : lobby = [IdleLobby EXCEPT !.judges = judges]
    /\ provider = [statuses |-> {"completed"}, messages |-> {PlainMessage},
                   deletes |-> {TRUE}, judge |-> PlainMessages]

LobbyNext ==
    \/ NewGameRequested
    \/ ThemedGameRequested
    \/ JudgesQueried
    \/ GameUpserted
    \/ \E u \in PlayerIds : RegRequested(u)
    \/ \E u \in PlayerIds : PlayerUpserted(u)
    \/ \E u \in PlayerIds : RegGameRead(u)
    \/ \E u \in PlayerIds : GameReplaced(u)
    \/ \E u \in PlayerIds : RegPublished(u)

LobbySpec == LobbyInit /\ [][LobbyNext]_vars

(***************************************************************************)
(* SubmitSpec: one submitPrompt request of each user on a game to which    *)
(* the first players, or none, are registered.                             *)
(***************************************************************************)
SubmitInit ==
    /\ \E nPlayers \in 0..MaxPlayers :
           /\ game = Joined(GameDoc(1), nPlayers)
           /\ players = Registered(nPlayers)
    /\ ga = [IdleAnswers EXCEPT !.runs = MaxRuns]
    /\ gj = [IdleJudgements EXCEPT !.runs = MaxRuns]
    /\ lobby = IdleLobby
    /\ provider = [statuses |-> {"completed"}, messages |-> {PlainMessage},
                   deletes |-> {TRUE}, judge |-> PlainMessages]

SubmitNext ==
    \/ \E u \in PlayerIds : SubmitRequested(u)
    \/ \E u \in PlayerIds : SubmitPlayerRead(u)
    \/ \E u \in PlayerIds : PromptUpserted(u)
    \/ \E u \in PlayerIds : PromptPublished(u)

SubmitSpec == SubmitInit /\ [][SubmitNext]_vars

(***************************************************************************)
(* LifecycleSpec: the life of one game, from no game at all.  One          *)
(* createNewGame request (createNewGame.ts) against a judge of one         *)
(* question, one playerReg and one submitPrompt request of each of the     *)
(* first MaxJoining users, one generateAnswers and one generateJudgements  *)
(* request, all of them at any time and in any interleaving.               *)
(***************************************************************************)
JoiningIds == 1..MaxJoining

LifecycleInit ==
    /\ game = NoGame
    /\ players = Registered(0)
    /\ ga = [IdleAnswers EXCEPT !.runs = MaxRuns - 1]
    /\ gj = [IdleJudgements EXCEPT !.runs = MaxRuns - 1]
    /\ lobby = [IdleLobby EXCEPT
                   !.judges = <<[theme |-> Theme, questions |-> <<1>>]>>]
    /\ provider = [statuses |-> {"completed"}, messages |-> {PlainMessage},
                   deletes |-> {TRUE}, judge |-> PlainMessages]

LifecycleNext ==
    \/ NewGameRequested
    \/ JudgesQueried
    \/ GameUpserted
    \/ \E u \in JoiningIds : RegRequested(u)
    \/ \E u \in JoiningIds : PlayerUpserted(u)
    \/ \E u \in JoiningIds : RegGameRead(u)
    \/ \E u \in JoiningIds : GameReplaced(u)
    \/ \E u \in JoiningIds : RegPublished(u)
    \/ \E u \in JoiningIds : SubmitRequested(u)
    \/ \E u \in JoiningIds : SubmitPlayerRead(u)
    \/ \E u \in JoiningIds : PromptUpserted(u)
    \/ \E u \in JoiningIds : PromptPublished(u)
    \/ AnswersRequested
    \/ PlayersQueried
    \/ \E k \in PairIds : CompletionReturned(k)
    \/ AnswersPatched
    \/ JudgementsRequested
    \/ \E i \in TaskIds : ThreadCreated(i)
    \/ \E i \in TaskIds : MessageSubmitted(i)
    \/ \E i \in TaskIds : RunStarted(i)
    \/ \E i \in TaskIds : RunPolled(i)
    \/ \E i \in TaskIds : MessagesListed(i)
    \/ \E i \in TaskIds : ThreadDeleted(i)
    \/ JudgementsPatched
    \/ \E k \in UpdateIds : PlayerRead(k)
    \/ \E k \in UpdateIds : PlayerPatched(k)

LifecycleSpec == LifecycleInit /\ [][LifecycleNext]_vars

(***************************************************************************)
(* ParserSpec: one runner task whose run has completed, from the           *)
(* messages.list call on, against a judge that may write any of            *)
(* JudgeMessages.                                                          *)
(***************************************************************************)
ParserInit ==
    /\ game = Joined([GameDoc(1) EXCEPT !.aiResponses = <<AIAnswer(1, 1, 1)>>],
                     1)
    /\ players = Registered(1)
    /\ ga = [IdleAnswers EXCEPT !.runs = MaxRuns]
    /\ gj = [FanOut([IdleJudgements EXCEPT !.runs = MaxRuns,
                                           !.gameId = "game"],
                    <<AIAnswer(1, 1, 1)>>)
                EXCEPT !.tasks[1] =
                    [NewTask EXCEPT !.pc = "list", !.thread = TRUE,
                                    !.polls = 1,
                                    !.lastPoll = [kind |-> "run",
                                                  status |-> "completed",
                                                  message |-> NoMessage]]]
    /\ lobby = IdleLobby
    /\ provider = [statuses |-> {"completed"}, messages |-> {PlainMessage},
                   deletes |-> {TRUE}, judge |-> JudgeMessages]

ParserNext ==
    \/ \E i \in TaskIds : MessagesListed(i)
    \/ \E i \in TaskIds : ThreadDeleted(i)

ParserSpec == ParserInit /\ [][ParserNext]_vars

(***************************************************************************)
(* Properties of the Judge Conversation Runner (RunnerSpec).               *)
(***************************************************************************)
Timeout == <<"Run timed out after 30 seconds">>
RunTerminated == {"failed", "cancelled", "expired"}
NonTerminal == {"queued", "in_progress"}
Ended(t) == t.pc = "done"

\* C1, as stated: every finished runner task has made exactly one
\* delete-conversation call, whatever state it faulted at, create
\* conversation included.
C1_CleanupOnceAlways ==
    \A i \in TaskIds : Ended(gj.tasks[i]) => gj.tasks[i].dels = 1

\* C1, amended: a runner task makes no delete call before it ends; a
\* finished task has made exactly one delete call when its conversation was
\* created (it ended in a Judgement or in a fault of any later state), and
\* none when create conversation itself faulted.
C1_CleanupOncePerConversation ==
    \A i \in TaskIds :
        LET t == gj.tasks[i]
        IN  /\ Ended(t) => t.dels = (IF t.thread THEN 1 ELSE 0)
            /\ ~Ended(t) => t.dels = 0

\* A task that faulted after its conversation was created, and one that
\* returned a Judgement, each ended with one delete call.
C1_Witness ==
    \E i \in TaskIds :
        /\ Ended(gj.tasks[i]) /\ gj.tasks[i].thread
        /\ gj.tasks[i].fault = Timeout
        /\ gj.tasks[i].dels = 1

\* C2, as stated: once a poll has answered failed, cancelled or expired the
\* runner is failing with the fault of that status (for failed, carrying
\* last_error.message), and is neither polling nor waiting to poll again.
C2_TerminatedRunFailsAtOnce ==
    \A i \in TaskIds :
        LET t == gj.tasks[i]
        IN  (t.lastPoll.kind = "run" /\ t.lastPoll.status \in RunTerminated)
            => /\ t.pc \in {"del", "done"}
               /\ t.fault = statusError(t.lastPoll)

\* C3, as stated: the runner task eventually ends, with a Judgement or with
\* a fault and not both.
C3_AlwaysTerminates ==
    <>(/\ Ended(gj.tasks[1])
       /\ (gj.tasks[1].judgement = NoJudgement)
              # (gj.tasks[1].fault = NoFault))

\* C3, amended: a runner task never holds both a Judgement and a fault, a
\* finished one holds exactly one of them, and the task ends unless its
\* polling meets rate-limit errors without end.
C3_TerminatesUnlessRateLimited ==
    /\ [](/\ ~(gj.tasks[1].judgement # NoJudgement
                /\ gj.tasks[1].fault # NoFault)
          /\ Ended(gj.tasks[1]) =>
                (gj.tasks[1].judgement = NoJudgement)
                    # (gj.tasks[1].fault = NoFault))
    /\ \/ []<>(gj.tasks[1].pc = "backoff")
       \/ <>Ended(gj.tasks[1])

\* A task that was rate-limited while polling and still ended with a
\* Judgement.
C3_Witness ==
    /\ Ended(gj.tasks[1])
    /\ gj.tasks[1].rateLimits > 0
    /\ gj.tasks[1].judgement # NoJudgement
    /\ gj.tasks[1].fault = NoFault

\* C4: without rate-limit waits, a poll that answers completed is poll
\* number attempts + 1, attempts < 30 being the non-terminal statuses seen
\* before it, and waitForRunCompletion returns; the timeout fault is raised
\* exactly when 30 non-terminal statuses were seen, after exactly 30 polls.
C4_PollCount ==
    \A i \in TaskIds :
        LET t == gj.tasks[i]
        IN  t.rateLimits = 0 =>
              /\ t.lastPoll.status = "completed" =>
                    /\ t.attempts < maxAttempts
                    /\ t.polls = t.attempts + 1
                    /\ t.pc \in {"list", "del", "done"}
                    /\ t.fault # Timeout
              /\ t.lastPoll.status \in NonTerminal =>
                    /\ t.polls = t.attempts
                    /\ t.attempts < maxAttempts => t.pc = "poll"
                    /\ t.attempts = maxAttempts =>
                          t.fault = Timeout /\ t.pc \in {"del", "done"}
              /\ t.fault = Timeout =>
                    t.attempts = maxAttempts /\ t.polls = maxAttempts

\* 29 non-terminal statuses, then completed at poll 30.
C4_Witness ==
    \E i \in TaskIds :
        /\ gj.tasks[i].rateLimits = 0
        /\ gj.tasks[i].lastPoll.status = "completed"
        /\ gj.tasks[i].attempts = maxAttempts - 1
        /\ gj.tasks[i].polls = maxAttempts

\* C5: a poll that raises a rate-limit fault leaves the attempt counter
\* unchanged and leads, after the wait, to another poll; the counter changes
\* only by one, at a poll that answered a non-terminal status; and the
\* timeout fault is raised only with the counter at 30.
C5_RateLimitKeepsAttempts ==
    [][\A i \in TaskIds :
          LET t == gj.tasks[i]
              u == gj'.tasks[i]
          IN  /\ (/\ t.pc = "poll" /\ u # t
                  /\ u.lastPoll.kind = "error"
                  /\ includesRateLimit(<<u.lastPoll.message>>))
                 => u.pc = "backoff" /\ u.attempts = t.attempts
              /\ (t.pc = "backoff" /\ u # t)
                 => u.pc = "poll" /\ u.attempts = t.attempts
              /\ u.attempts # t.attempts
                 => /\ t.pc = "poll"
                    /\ u.lastPoll.status \in NonTerminal
                    /\ u.attempts = t.attempts + 1
              /\ u.fault = Timeout => u.attempts = maxAttempts]_vars

\* Rate-limit waits interleaved with 29 non-terminal statuses, and the run
\* still completed.
C5_Witness ==
    \E i \in TaskIds :
        /\ gj.tasks[i].rateLimits = MaxRateLimits
        /\ gj.tasks[i].attempts = maxAttempts - 1
        /\ gj.tasks[i].lastPoll.status = "completed"
        /\ gj.tasks[i].pc = "list"

(***************************************************************************)
(* Properties of generateAnswers (AnswersSpec).                            *)
(***************************************************************************)
RegisteredPlayers == {p \in PlayerIds : players[p] # NoDoc}
GameQuestions == Range(game.questions)
AnswersReturned == ga.pc = "done" /\ Len(ga.calls) > 0
IsError(entry) == entry.error # None

\* C7: the result list generateAnswers returns has p*q entries, p the
\* registered players and q the judge questions of the game: exactly one
\* entry for each (player, question) pair.
C7_OneEntryPerPair ==
    AnswersReturned =>
        /\ Len(ga.responses)
               = Cardinality(RegisteredPlayers) * Cardinality(GameQuestions)
        /\ \A p \in RegisteredPlayers, q \in GameQuestions :
               Cardinality({k \in DOMAIN ga.responses :
                               /\ ga.responses[k].playerId = p
                               /\ ga.responses[k].questionId = q}) = 1

\* MaxPlayers * MaxQuestions entries, errors among them.
C7_Witness ==
    /\ AnswersReturned
    /\ Len(ga.responses) = MaxPlayers * MaxQuestions
    /\ \E k \in DOMAIN ga.responses : IsError(ga.responses[k])
    /\ \E k \in DOMAIN ga.responses : ~IsError(ga.responses[k])

\* C8: the value a pair's task resolves with is an AnswerError exactly when
\* its model call threw or answered no choices, whatever the other pairs
\* did; no settled call ends the request other than with 200; and the list
\* returned holds, pair by pair, these values.
C8_FaultsIsolated ==
    /\ \A k \in PairIds :
           ga.calls[k].value # None =>
               /\ IsError(ga.calls[k].value[1])
                      <=> ga.calls[k].reply # "answer"
               /\ ga.calls[k].value[1].playerId = pairPlayer(ga, k)
               /\ ga.calls[k].value[1].questionId = pairQuestion(ga, k)
    /\ (\E k \in PairIds : ga.calls[k].reply # "pending") =>
           /\ ga.status \in {0, 200}
           /\ \A k \in PairIds : ga.calls[k].reply \in
                  (IF ga.calls[k].value = None THEN {"pending"}
                   ELSE CompletionReplies)
    /\ AnswersReturned =>
           /\ ga.status = 200
           /\ ga.responses = [k \in PairIds |-> ga.calls[k].value[1]]

\* A request answered 200 with a thrown error, an empty response and an
\* Answer side by side.
C8_Witness ==
    /\ AnswersReturned /\ ga.status = 200
    /\ \E k \in PairIds : ga.calls[k].reply = "error"
    /\ \E k \in PairIds : ga.calls[k].reply = "no_choices"
    /\ \E k \in PairIds :
           ga.calls[k].reply = "answer" /\ ~IsError(ga.responses[k])

(***************************************************************************)
(* Properties of the pipeline (Spec).                                      *)
(***************************************************************************)
Faulted(t) == Ended(t) /\ t.fault # NoFault

\* C6: once a runner task of a generateJudgements run has ended in a fault,
\* the request has answered 500 and the run has written, and goes on to
\* write, neither the game's judgements nor any player record.
C6_FaultAbortsRun ==
    (\E i \in TaskIds : Faulted(gj.tasks[i])) =>
        /\ gj.pc = "done" /\ gj.status = 500
        /\ ~gj.wroteGame
        /\ gj.wrotePlayers = {}

\* One task faulted, every other answer was judged, and the run is aborted.
C6_Witness ==
    /\ Len(gj.tasks) > 1
    /\ Cardinality({i \in TaskIds : Faulted(gj.tasks[i])}) = 1
    /\ \A i \in TaskIds : Ended(gj.tasks[i])
    /\ gj.status = 500 /\ ~gj.wroteGame

\* C9, as stated: in every state a player's totalScore, once written, is
\* the sum of the totalScore values of the player's Judgements stored on the
\* game.
C9_TotalIsSumOfStored ==
    \A p \in RegisteredPlayers :
        players[p][1].totalScore # NoField =>
            players[p][1].totalScore[1]
                = combinedTotalScore(game.judgements, p)

\* C9, amended: a step that writes a player's record is a step of a
\* generateJudgements run that has patched the game, and the totalScore it
\* writes is the sum of the totalScore values of that run's Judgements for
\* that player.
C9_WrittenTotalIsSumOfRun ==
    [][\A p \in PlayerIds :
          players'[p] # players[p] =>
              /\ gj.wroteGame
              /\ \E k \in UpdateIds : gj.updates[k].playerId = p
              /\ players'[p][1].totalScore
                     = Some(SumSeq(totalScores(gj.judgements, p)))]_vars

\* A second run has written a player's total, and it differs from the
\* first run's.
C9_Witness ==
    \E p \in RegisteredPlayers :
        /\ gj.runs = 2 /\ p \in gj.wrotePlayers
        /\ players[p][1].totalScore = Some(MaxScore)
        /\ Len(gj.judgements) = MaxPlayers

\* C10, as stated: every Judgement stored on the game has the aiAnswerId of
\* an Answer stored in the game's aiResponses.
C10_JudgementsReferenceAnswers ==
    \A k \in DOMAIN game.judgements :
        \E n \in DOMAIN game.aiResponses :
            game.aiResponses[n].id = game.judgements[k].aiAnswerId

(***************************************************************************)
(* Re-running generateJudgements (Spec).                                   *)
(***************************************************************************)
\* C11, as stated: a generateJudgements run that writes the judgements of a
\* game that already has stored judgements leaves the stored ones in place
\* and appends its own after them.
C11_RerunAppends ==
    [][(game'.judgements # game.judgements /\ game.judgements # <<>>)
          => game'.judgements = game.judgements \o gj.judgements]_vars

\* C11, amended: a step that changes the game's judgements is the patch of a
\* generateJudgements run, and it leaves exactly that run's Judgements
\* stored, whatever was stored before: one Judgement for each answer the run
\* judged, no two with the same id.
C11_RerunReplaces ==
    [][game'.judgements # game.judgements
          => /\ gj.pc = "patchGame"
             /\ game'.judgements = gj.judgements
             /\ Len(game'.judgements) = Len(gj.aiResponses)
             /\ \A k, n \in DOMAIN game'.judgements :
                    game'.judgements[k].id = game'.judgements[n].id
                        => k = n]_vars

\* A second run has patched the game after a first run had patched it and
\* written a player: what is stored is the second run's Judgements.
C11_Witness ==
    /\ gj.runs = 2 /\ gj.wroteGame /\ gj.wrotePlayers = {}
    /\ \E p \in RegisteredPlayers : players[p][1].totalScore # NoField
    /\ Len(game.judgements) = MaxPlayers
    /\ \A k \in DOMAIN game.judgements : game.judgements[k].timestamp = 2

\* C12, as stated: a run that writes the total of a player whose record
\* already holds the total of an earlier run writes the earlier run's scores
\* and its own together.
C12_RerunDoubleCounts ==
    [][\A p \in PlayerIds :
          (players'[p] # players[p] /\ players[p][1].totalScore # NoField)
              => players'[p][1].totalScore[1]
                     = players[p][1].totalScore[1]
                           + combinedTotalScore(gj.judgements, p)]_vars

\* C12, amended: a run that writes the total of a player whose record
\* already holds the total of an earlier run overwrites it with the sum of
\* its own Judgements for that player alone; a total never exceeds what the
\* judge can give one run's answers of that player.
C12_RerunCountsOwnRunOnly ==
    /\ [][\A p \in PlayerIds :
             (players'[p] # players[p]
                  /\ players[p][1].totalScore # NoField)
                 => players'[p][1].totalScore
                        = Some(combinedTotalScore(gj.judgements, p))]_vars
    /\ [](\A p \in RegisteredPlayers :
             players[p][1].totalScore # NoField =>
                 players[p][1].totalScore[1]
                     <= MaxScore * Len(game.questions))

\* The second run has overwritten a player's total with its own, smaller
\* one, while the other player still holds the first run's total.
C12_Witness ==
    \E p, o \in RegisteredPlayers :
        /\ gj.runs = 2 /\ gj.wrotePlayers = {p} /\ o # p
        /\ players[p][1].totalScore = Some(1)
        /\ players[o][1].totalScore = Some(MaxScore)

(***************************************************************************)
(* Properties of the Score Aggregator (ScoreSpec).                         *)
(***************************************************************************)
\* The players that have a Judgement in the run.
JudgedPlayers == {gj.judgements[k].playerId : k \in DOMAIN gj.judgements}

\* The sum of the totalScore values of the run's Judgements for a player.
RunTotal(p) ==
    SumSeq([k \in DOMAIN gj.judgements |->
               IF gj.judgements[k].playerId = p
               THEN gj.judgements[k].totalScore ELSE 0])

\* The totalScore values of the run's Judgements for a player, as a bag.
RunTotals(p) ==
    [v \in Range(ScenarioTotals) |->
        Cardinality({k \in DOMAIN gj.judgements :
                        /\ gj.judgements[k].playerId = p
                        /\ gj.judgements[k].totalScore = v})]

AllUpdated ==
    /\ gj.pc = "done" /\ gj.status = 200
    /\ \A k \in UpdateIds : gj.updates[k].outcome = "written"

\* C13: after a successful run in which every player update succeeded,
\* every player with a Judgement in the run has totalScore equal to the sum
\* of that run's totalScore values for the player (730 for 250, 300, 180)
\* and themeName equal to the game's theme, and exactly one record per such
\* player was written: MaxPlayers records when every player was judged.
C13_TotalsWritten ==
    AllUpdated =>
        /\ \A p \in JudgedPlayers :
               /\ players[p] # NoDoc
               /\ players[p][1].totalScore = Some(RunTotal(p))
               /\ players[p][1].themeName = Some(game.theme)
               /\ (\A v \in Range(ScenarioTotals) : RunTotals(p)[v] = 1)
                      => players[p][1].totalScore = Some(730)
        /\ gj.wrotePlayers = JudgedPlayers
        /\ Len(gj.updates) = Cardinality(JudgedPlayers)
        /\ Cardinality(JudgedPlayers) = MaxPlayers

\* Every player was updated; one of them was judged 250, 300 and 180 and
\* holds 730, another holds a different total.
C13_Witness ==
    /\ AllUpdated
    /\ Cardinality(gj.wrotePlayers) = MaxPlayers
    /\ \E p, o \in JudgedPlayers :
           /\ \A v \in Range(ScenarioTotals) : RunTotals(p)[v] = 1
           /\ players[p][1].totalScore = Some(730)
           /\ players[o][1].totalScore = Some(900)

\* C14: the run has one update task per judged player; a fault of the read
\* or of the patch of one player, or a player missing from the store, ends
\* that player's task alone: no update fault answers 500, every other task
\* goes on to its own outcome, the request answers 200 once every task has
\* ended, and then every player whose read and patch answered holds the
\* run's total.
C14_UpdatesIsolated ==
    /\ gj.wroteGame =>
           /\ {gj.updates[k].playerId : k \in UpdateIds} = JudgedPlayers
           /\ gj.status \in {0, 200}
           /\ gj.pc = "done" <=>
                  \A k \in UpdateIds : gj.updates[k].pc = "done"
           /\ gj.pc = "done" => gj.status = 200
    /\ \A k \in UpdateIds :
           LET u == gj.updates[k]
           IN  /\ u.pc = "read" => u.outcome = "pending"
               /\ u.pc = "patch" =>
                      u.outcome = "pending" /\ players[u.playerId] # NoDoc
               /\ u.pc = "done" => u.outcome # "pending"
               /\ u.outcome = "absent" => players[u.playerId] = NoDoc
               /\ u.outcome = "written" <=> u.playerId \in gj.wrotePlayers
               /\ u.outcome = "written" =>
                      players[u.playerId][1].totalScore
                          = Some(RunTotal(u.playerId))
               /\ u.outcome \in {"readFault", "patchFault", "absent"} =>
                      (players[u.playerId] # NoDoc =>
                          players[u.playerId][1].totalScore = NoField)

\* The request answered 200 although the update of one player faulted, and
\* the other player was still updated.
C14_Witness ==
    /\ gj.pc = "done" /\ gj.status = 200
    /\ \E k, n \in UpdateIds :
           /\ gj.updates[k].outcome \in {"readFault", "patchFault"}
           /\ gj.updates[n].outcome = "written"
           /\ players[gj.updates[n].playerId][1].totalScore
                  = Some(RunTotal(gj.updates[n].playerId))

(***************************************************************************)
(* Properties of the store write of generateAnswers (AnswersSpec).         *)
(***************************************************************************)
AnswerReplies == {k \in PairIds : ga.calls[k].reply = "answer"}

\* C15, as stated: a step that changes the game's aiResponses keeps every
\* Answer that was stored and puts the run's successful Answers after them.
C15_AnswersAppended ==
    [][game'.aiResponses # game.aiResponses
          => game'.aiResponses
                 = game.aiResponses \o ga.successfulResponses]_vars

\* C16: a step that changes the game's aiResponses is the patch of a
\* generateAnswers run and stores, in the order of the pairs, exactly one
\* Answer for each pair whose model call answered, and nothing for a pair
\* that ended in an AnswerError; no stored entry ever is an AnswerError.
C16_OnlyAnswersStored ==
    /\ [][game'.aiResponses # game.aiResponses
             => /\ ga.pc = "patch"
                /\ Len(game'.aiResponses) = Cardinality(AnswerReplies)
                /\ \A n \in DOMAIN game'.aiResponses :
                       \E k \in AnswerReplies :
                           /\ game'.aiResponses[n]
                                  = AIAnswer(pairPlayer(ga, k),
                                             pairQuestion(ga, k), ga.runs)
                           /\ n = Cardinality({m \in AnswerReplies : m <= k})
            ]_vars
    /\ [](\A n \in DOMAIN game.aiResponses :
             /\ game.aiResponses[n].timestamp > 0
             /\ game.aiResponses[n].id
                    = <<game.aiResponses[n].playerId,
                        game.aiResponses[n].questionId>>)

\* A run with AnswerErrors among its results has stored its Answers only.
C16_Witness ==
    /\ ga.pc = "done" /\ ga.stored
    /\ Len(ga.responses) = MaxPlayers * MaxQuestions
    /\ game.aiResponses = ga.successfulResponses
    /\ Len(game.aiResponses) > 1
    /\ Cardinality({k \in PairIds : IsError(ga.responses[k])}) > 1

\* C17: a request whose fan-out produced an Answer answers 200 with the
\* result of every pair, processedCount the number of Answers and
\* errorCount the number of AnswerErrors, whether the store write answered
\* or faulted; a write that faulted leaves the game as it was.
C17_WriteFaultSwallowed ==
    /\ [](AnswersReturned /\ AnswerReplies # {} =>
             answersResponse(ga) =
                 [status |-> 200,
                  processedCount |-> Cardinality(AnswerReplies),
                  errorCount |-> Len(ga.calls) - Cardinality(AnswerReplies),
                  totalPlayers |-> Cardinality(RegisteredPlayers),
                  totalQuestions |-> Cardinality(GameQuestions),
                  expectedTotal |-> Len(ga.calls),
                  responses |-> [k \in PairIds |-> ga.calls[k].value[1]]])
    /\ [][(ga.pc = "patch" /\ ga'.pc = "done" /\ ~ga'.stored)
             => game' = game]_vars

\* The store write faulted and the request answered 200 with Answers and
\* AnswerErrors.
C17_Witness ==
    /\ AnswersReturned /\ ~ga.stored
    /\ answersResponse(ga).status = 200
    /\ answersResponse(ga).processedCount > 0
    /\ answersResponse(ga).errorCount > 0
    /\ Len(answersResponse(ga).responses) = MaxPlayers * MaxQuestions

(***************************************************************************)
(* Properties of sanitizeInput (SanitizeSpec).                             *)
(***************************************************************************)
\* C20, as stated: the sanitized prompt of every model call holds no
\* character outside the allow-list, neither starts nor ends with a
\* whitespace character, and holds no two whitespace characters in a row.
C20_SanitizedClean ==
    \A k \in PairIds :
        LET out == ga.calls[k].content.assistantPrompt
        IN  /\ \A i \in DOMAIN out : isAllowed(out[i])
            /\ out # <<>> =>
                   ~isWhitespace(out[1]) /\ ~isWhitespace(out[Len(out)])
            /\ \A i \in DOMAIN out :
                   i > 1 => ~(isWhitespace(out[i - 1]) /\ isWhitespace(out[i]))

(***************************************************************************)
(* The join of the judgement fan-out (Spec).                               *)
(***************************************************************************)
FanOutJoined == gj.pc # "fanout" /\ Len(gj.tasks) > 0

\* C18, as stated: the request has left the join of its fan-out only when
\* every runner task has ended, with a Judgement or with a fault.
C18_JoinWaitsForAll ==
    FanOutJoined => \A i \in TaskIds : Ended(gj.tasks[i])

\* C18, amended: the join waits for every runner task only while none has
\* faulted.  The request goes on to patch the game only when every task has
\* ended with a Judgement; a task that ends in a fault ends the join at
\* once with the 500 response, whatever the other tasks are doing, so the
\* request never waits in the join with a faulted task.
C18_JoinFailsFast ==
    /\ gj.pc = "fanout" => \A i \in TaskIds : ~Faulted(gj.tasks[i])
    /\ FanOutJoined =>
           \/ \A i \in TaskIds :
                  Ended(gj.tasks[i]) /\ gj.tasks[i].judgement # NoJudgement
           \/ /\ gj.pc = "done" /\ gj.status = 500 /\ ~gj.wroteGame
              /\ \E i \in TaskIds : Faulted(gj.tasks[i])
    /\ (gj.pc \in {"patchGame", "updatePlayers"} \/ gj.status = 200) =>
           \A i \in TaskIds : Ended(gj.tasks[i])

\* The request has answered 500 on the fault of one task while another
\* task of the fan-out has not ended.
C18_Witness ==
    /\ gj.pc = "done" /\ gj.status = 500
    /\ \E i, n \in TaskIds :
           /\ Faulted(gj.tasks[i])
           /\ ~Ended(gj.tasks[n]) /\ gj.tasks[n].pc = "poll"

(***************************************************************************)
(* The cleanup of the Judge Conversation Runner (RunnerSpec).              *)
(***************************************************************************)
\* C19: the answer of the delete-conversation call, fault or not, ends the
\* task with the Judgement or the fault it held before the call; a finished
\* task whose delete call faulted holds its Judgement and no fault, or the
\* fault of an earlier step and no Judgement.
C19_CleanupFaultIgnored ==
    /\ [][\A i \in TaskIds :
             LET t == gj.tasks[i]
                 u == gj'.tasks[i]
             IN  (t.pc = "del" /\ u # t) =>
                     /\ u.pc = "done"
                     /\ u.judgement = t.judgement
                     /\ u.fault = t.fault]_vars
    /\ [](\A i \in TaskIds :
             LET t == gj.tasks[i]
             IN  (Ended(t) /\ t.cleanupError) =>
                     /\ (t.judgement = NoJudgement) # (t.fault = NoFault)
                     /\ t.judgement # NoJudgement =>
                            t.lastPoll.status = "completed"
                     /\ t.fault # NoFault =>
                            t.fault \in
                                {<<"messages.create failed">>,
                                 <<"runs.create failed">>,
                                 <<"messages.list failed">>,
                                 <<"No messages found in thread">>,
                                 <<"No text content found in assistant response">>,
                                 <<"Could not parse Final Score">>,
                                 <<"Could not parse Justification">>,
                                 Timeout,
                                 <<"Run requires action - not supported">>,
                                 <<t.lastPoll.message>>,
                                 statusError(t.lastPoll)})

\* The delete call faulted after a successful parse, and the task still
\* returned its Judgement.
C19_Witness ==
    \E i \in TaskIds :
        /\ Ended(gj.tasks[i]) /\ gj.tasks[i].cleanupError
        /\ gj.tasks[i].judgement # NoJudgement
        /\ gj.tasks[i].fault = NoFault

(***************************************************************************)
(* Properties of the Response Parser (ParserSpec).                         *)
(***************************************************************************)
FieldNames == ScoreFields \o <<JustificationField>>
WrittenFields(m) ==
    <<m.written.context, m.written.technical, m.written.clarity,
      m.written.final, m.written.justification>>
MissingFields(m) == {n \in 1..5 : WrittenFields(m)[n] = Missing}

\* the tasks that were handed a message of the judge
Parsed == {i \in TaskIds : gj.tasks[i].listed.kind = "text"}
Written(i) == gj.tasks[i].listed.message[1]

\* the four numbers of the Judgement of task i
Scores(i) ==
    LET judgement == gj.tasks[i].judgement[1]
    IN  <<judgement.contextScore, judgement.technicalScore,
          judgement.clarityScore, judgement.totalScore>>

Complete(i) == MissingFields(Written(i)) = {}
WrittenJustification(i) == Written(i).written.justification[1]
WrittenNumbers(i) ==
    <<Written(i).written.context[1], Written(i).written.technical[1],
      Written(i).written.clarity[1], Written(i).written.final[1]>>

\* the parse returned the numbers written
RoundTrips(i) ==
    /\ gj.tasks[i].judgement # NoJudgement
    /\ Scores(i) = WrittenNumbers(i)

\* C22 as stated: for every four integers c, t, l, f and justification
\* text j, the parse of the well-formed response with plain labels is
\* exactly (c, t, l, f) and j trimmed, and the same scores under emphasized
\* labels with denominator suffixes give the same four numbers.
C22_RoundTripsEveryInput ==
    \A i \in Parsed :
        /\ Complete(i) /\ Written(i).layout = PlainLayout =>
               /\ RoundTrips(i)
               /\ gj.tasks[i].judgement[1].justification =
                      trimEnd(trimStart(WrittenJustification(i)))
        /\ Complete(i) /\ Written(i).layout \in EmphasizedLayouts =>
               RoundTrips(i)

\* the scores are decimal numerals without a sign, the justification is one
\* line
Unsigned(i) == \A n \in 1..4 : WrittenNumbers(i)[n] >= 0
OneLine(i) == "\n" \notin Range(WrittenJustification(i))

\* C22 amended: the round trip holds for non-negative integers and a
\* justification of one line.
C22_RoundTripsUnsignedOneLine ==
    \A i \in Parsed :
        /\ Complete(i) /\ Unsigned(i) /\ OneLine(i)
             /\ Written(i).layout = PlainLayout =>
               /\ RoundTrips(i)
               /\ gj.tasks[i].judgement[1].justification =
                      trimEnd(trimStart(WrittenJustification(i)))
        /\ Complete(i) /\ Unsigned(i) /\ OneLine(i)
             /\ Written(i).layout \in EmphasizedLayouts =>
               RoundTrips(i)

\* A message with emphasized labels and denominators, four different
\* fields among them, and a justification with spaces around it was parsed.
C22_Witness ==
    \E i \in Parsed :
        /\ gj.tasks[i].pc = "done"
        /\ Written(i).layout \in EmphasizedLayouts
        /\ WrittenNumbers(i) = <<0, 1, MaxScore, 1>>
        /\ WrittenJustification(i) = <<" ", Word, " ">>
        /\ Scores(i) = <<0, 1, MaxScore, 1>>
        /\ gj.tasks[i].judgement[1].justification = <<Word>>

(***************************************************************************)
(* Properties of the entry points (EntrySpec).                             *)
(***************************************************************************)
\* the request answered with a client error
ClientError(r) == r.pc = "done" /\ r.status \in {400, 404}

\* the answer of a request r that did not meet a fault of the store
Answered(r, status) ==
    r.pc = "done" /\ (r.status = status \/ r.status = 500)

\* the step of ga is the entry of a generateAnswers request; of gj, of a
\* generateJudgements request
AnswersEntered == ga.pc \in {"idle", "done"} /\ ga' # ga
JudgementsEntered == gj.pc \in {"idle", "done"} /\ gj' # gj

\* C23: generateAnswers and generateJudgements answer a missing gameId with
\* 400 and a game that does not exist with 404; generateAnswers answers 404
\* for a game without judge questions or without players, generateJudgements
\* for a game without stored answers; in each of these cases no model-service
\* call is made and no game or player document is written.
C23_InputErrorsWithoutEffect ==
    [][/\ AnswersEntered =>
            /\ ga'.gameId = "absent" => Answered(ga', 400) /\ ga'.status = 400
            /\ ga'.gameId = "unknown" => Answered(ga', 404)
            /\ ga'.gameId = "game" /\ Len(game.questions) = 0 =>
                   Answered(ga', 404)
       /\ ga.pc = "queryPlayers" /\ ga' # ga /\ RegisteredPlayers = {} =>
            Answered(ga', 404)
       /\ JudgementsEntered =>
            /\ gj'.gameId = "absent" => Answered(gj', 400) /\ gj'.status = 400
            /\ gj'.gameId = "unknown" => Answered(gj', 404)
            /\ gj'.gameId = "game" /\ Len(game.aiResponses) = 0 =>
                   Answered(gj', 404)
       /\ ClientError(ga') /\ ga' # ga =>
            /\ ga'.calls = <<>> /\ ~ga'.stored
            /\ game' = game /\ players' = players
       /\ ClientError(gj') /\ gj' # gj =>
            /\ gj'.tasks = <<>> /\ ~gj'.wroteGame /\ gj'.wrotePlayers = {}
            /\ game' = game /\ players' = players]_vars

\* Both requests were refused for the state of the game: generateAnswers
\* for its missing players, generateJudgements for its missing answers.
C23_Witness ==
    /\ ClientError(ga) /\ ga.gameId = "game" /\ ga.status = 404
    /\ Len(game.questions) > 0 /\ RegisteredPlayers = {}
    /\ ClientError(gj) /\ gj.gameId = "game" /\ gj.status = 404
    /\ game.aiResponses = <<>> /\ ga.calls = <<>> /\ gj.tasks = <<>>

(***************************************************************************)
(* The order of the calls of a runner task (RunnerSpec).  The pc of a task *)
(* is the call it has issued and awaits; "backoff" is the wait after a     *)
(* rate-limit fault of a poll, "done" the end of the task.                 *)
(***************************************************************************)
\* the next call after a call that succeeded
CallOrder ==
    {<<"create", "submit">>, <<"submit", "run">>, <<"run", "poll">>,
     <<"poll", "poll">>, <<"poll", "backoff">>, <<"backoff", "poll">>,
     <<"poll", "list">>, <<"list", "del">>, <<"del", "done">>}

\* the way out of a call that failed: the delete of the conversation, or
\* the end of the task when no conversation was created
CleanupOrder ==
    {<<"create", "done">>, <<"submit", "del">>, <<"run", "del">>,
     <<"poll", "del">>, <<"list", "del">>}

Aborted ==
    /\ gj.pc = "done" /\ gj.status = 500
    /\ \E i \in TaskIds : Faulted(gj.tasks[i])

\* task i has ended, and has made its delete call if it had a conversation
EndedWithCleanup(i) ==
    /\ Ended(gj.tasks[i])
    /\ gj.tasks[i].dels = (IF gj.tasks[i].thread THEN 1 ELSE 0)

Created(u) == lobby.regs[u].pc = "done" /\ lobby.regs[u].status = 201

\* C26: after any interleaving of two playerReg invocations of two
\* different users on the same existing game that both answer 201, the
\* players list and the playerIds list of the game contain both users.
C26_BothPlayersListed ==
    \A u, v \in PlayerIds :
        u # v /\ Created(u) /\ Created(v) =>
            /\ {u, v} \subseteq Range(game.playerIds)
            /\ {[id |-> u], [id |-> v]} \subseteq Range(game.players)

\* the questions of the judge the game is created from
Pool == IF lobby.judges = <<>> THEN <<>> ELSE lobby.judges[1].questions
GameStored == lobby.create.pc = "done" /\ lobby.create.status = 200

\* C27: createNewGame stores a game whose judge questions are exactly
\* min(3, n) pairwise distinct questions of the judge's pool of n
\* questions, none of them undefined; no later operation adds a question to
\* the set or removes one from it.
C27_QuestionSetDrawnOnce ==
    [][/\ GameStored' =>
            /\ Len(game'.questions) = Min(questionsPerGame, Len(Pool))
            /\ Cardinality(Range(game'.questions)) = Len(game'.questions)
            /\ Range(game'.questions) \subseteq Range(Pool)
            /\ UndefinedQuestion \notin Range(game'.questions)
       /\ game.status # "absent" => game'.questions = game.questions]_vars

\* C28: submitPrompt for a user without a player record answers 400
\* 'Player not found', writes no document to the players container and
\* publishes no message; for an existing player it changes only the prompt
\* field of that player.
C28_MissingPlayerRejected ==
    /\ lobby.strays = {}
    /\ \A u \in PlayerIds :
           LET r == lobby.submits[u]
           IN  /\ players[u] = NoDoc /\ r.pc = "done" =>
                      /\ r.status \in {400, 500}
                      /\ ~r.wrotePlayer /\ ~r.published
               /\ players[u] # NoDoc =>
                      /\ [players[u][1] EXCEPT !.prompt = PlayerDoc.prompt]
                             = PlayerDoc
                      /\ players[u][1].prompt # PlayerDoc.prompt =>
                             /\ r.wrotePlayer
                             /\ players[u][1].prompt = r.prompt

\* C29: playerReg for a game that does not exist answers 'Game not found'
\* and leaves the store as it was: no player document created or
\* overwritten, no game document written.
C29_UnknownGameLeavesStore ==
    \A u \in PlayerIds :
        lobby.regs[u].pc = "done" /\ lobby.regs[u].status = 404 =>
            /\ ~lobby.regs[u].wrotePlayer /\ ~lobby.regs[u].wroteGame
            /\ players[u] = NoDoc

(***************************************************************************)
(* The frame of the Score Aggregator (Spec).                               *)
(***************************************************************************)
\* the document with the totalScore and themeName of another
WithScoreOf(doc, other) ==
    [doc EXCEPT !.totalScore = other.totalScore,
                !.themeName = other.themeName]

\* C30: a generateJudgements run writes totalScore and themeName only on
\* the records of the players that have a Judgement in that run; the record
\* of every other player of the game is left unchanged, and no other field
\* of a player record is changed.
C30_OnlyJudgedPlayersScored ==
    [][\A p \in PlayerIds :
           players'[p] # players[p] =>
               /\ gj.pc = "updatePlayers"
               /\ p \in JudgedPlayers
               /\ players[p] # NoDoc /\ players'[p] # NoDoc
               /\ WithScoreOf(players'[p][1], players[p][1]) = players[p][1]
               /\ players'[p][1].totalScore = Some(RunTotal(p))
               /\ players'[p][1].themeName = Some(gj.theme)]_vars

\* A run has ended in which one player was judged and scored, and another
\* player of the game, none of whose answers was stored, has the record it
\* had before.
C30_Witness ==
    /\ gj.pc = "done" /\ gj.status = 200
    /\ \E p, other \in PlayerIds :
           /\ p \in JudgedPlayers /\ p \in gj.wrotePlayers
           /\ players[p] # NoDoc /\ players[p][1].totalScore # NoField
           /\ players[p][1].prompt = PlayerDoc.prompt
           /\ other \notin JudgedPlayers
           /\ players[other] = Some(PlayerDoc)

(***************************************************************************)
(* The status of the game (LifecycleSpec).                                 *)
(***************************************************************************)
\* a game document is stored
GameExists == game.status # "absent"

\* C31: no operation (playerReg, submitPrompt, generateAnswers,
\* generateJudgements) changes the status of a game: in every reachable
\* state the status of the game is the 'waiting' createNewGame set.
C31_StatusStaysWaiting ==
    /\ [](GameExists => game.status = "waiting")
    /\ [][GameExists => game'.status = game.status]_vars

\* The game has been through every operation: a player registered with 201
\* and submitted a prompt, generateAnswers stored its answers,
\* generateJudgements stored its judgements and scored the player; the
\* status is still 'waiting'.
C31_Witness ==
    /\ GameExists /\ game.status = "waiting"
    /\ \E u \in JoiningIds :
           /\ Created(u) /\ lobby.regs[u].wroteGame
           /\ lobby.submits[u].pc = "done" /\ lobby.submits[u].wrotePlayer
           /\ u \in gj.wrotePlayers
    /\ ga.pc = "done" /\ ga.stored /\ game.aiResponses # <<>>
    /\ gj.pc = "done" /\ gj.wroteGame /\ game.judgements # <<>>

====
